---- MODULE Spec2Model ----
(***************************************************************************)
(* The WOPI integration layer of the TeamSync Editor sample application    *)
(* (src/sample-app/README.md, the server source from line 165 on): the     *)
(* JWT token service, the token-validation middleware, the in-memory       *)
(* document store and lock map, and the WOPI endpoints CheckFileInfo,      *)
(* GetFile, PutFile and the X-WOPI-Override family.                        *)
(*                                                                         *)
(* Node runs one handler at a time: every synchronous handler is one       *)
(* atomic action.  PutFile alone is split in two, because express.raw      *)
(* reads the request body asynchronously between the middleware and the    *)
(* handler, so other requests are served in between.                       *)
(*                                                                         *)
(* Every handler is an operator from the server state and the request to   *)
(* the new maps and the response sent; the actions apply the handlers.     *)
(***************************************************************************)
EXTENDS Integers, Sequences, FiniteSets, TLC

VARIABLES
    localDocuments,   \* Map fileId -> document (a function on the stored ids)
    documentLocks,    \* Map fileId -> { lockId, userId, timestamp }
    now,              \* Date.now() in milliseconds
    pending,          \* PutFile requests past the middleware, body not yet read
    held,             \* a token a client was issued, with what it was issued for
    verdict,          \* what the token service answered when the client used it
    discoveryCache,   \* Map collaboraUrl -> { urlPath, timestamp }
    fetching,         \* discovery fetches in flight, per collaboraUrl
    resolved          \* what getCollaboraUrlPath returned last

\* The discovery service's part of the state.
discovery == <<discoveryCache, fetching, resolved>>

vars == <<localDocuments, documentLocks, now, pending, held, verdict,
          discovery>>

(***************************************************************************)
(* Bounds and input sets                                                   *)
(***************************************************************************)
TickMs == 1000       \* the clock is read every TickMs milliseconds
MaxTicks == 1        \* the clock is followed for MaxTicks readings
MaxPending == 1      \* PutFile requests awaiting their body at one time
tokenTtlSeconds == 1 \* config.tokenTtlSeconds (TOKEN_TTL), scaled to the clock

TokenTickMs == 500   \* the token service check reads the clock twice a second
MaxTokenTicks == 4   \* and follows it for MaxTokenTicks readings

MaxNow == TickMs * MaxTicks
MaxTokenNow == TokenTickMs * MaxTokenTicks

\* JavaScript undefined: an absent header, a missing payload field.
undefined == "#undefined"

\* Two documents: the sample loaded at startup, edited by two users with two
\* lock tokens, and one that is uploaded later and opened by its uploader.
FileIds == {"sample-doc-001", "doc-1"}
SampleIds == {"sample-doc-001"}
UserIds == {"demo-user-001", "user-2"}
LockTokens == {"L1", "L2"}
Permissions == {"edit", "view"}
SampleContent == <<0>>
Bodies == {<<1, 1>>}
SampleName == "Sample Document.docx"
UploadName == "report.docx"

\* Who holds tokens for a document, and what their requests carry.
TokenUsers(f) == IF f \in SampleIds THEN UserIds ELSE {"demo-user-001"}
TokenPermissions(f) == IF f \in SampleIds THEN Permissions ELSE {"edit"}
LockHeaders(f) ==
    IF f \in SampleIds THEN LockTokens \cup {undefined} ELSE {"L1"}
RequestedNames(f) ==
    IF f \in SampleIds THEN {undefined, "Q3%20plan.docx", "100%.docx"}
    ELSE {undefined}

jwtSecret == "JWT_SECRET"

userName(id) == IF id = "demo-user-001" THEN "Demo User" ELSE "User Two"

(***************************************************************************)
(* Date helpers                                                            *)
(***************************************************************************)
\* Math.floor(Date.now() / 1000)
epochSeconds(ms) == ms \div 1000

\* new Date().toISOString(): "...:SS.mmmZ", seconds then milliseconds.
toISOString(ms) == <<ms \div 1000, ms % 1000>>

\* Lexicographic order of two ISO strings.
isoLess(a, b) == a[1] < b[1] \/ (a[1] = b[1] /\ a[2] < b[2])

(***************************************************************************)
(* JWT token service                                                       *)
(***************************************************************************)
\* jwt.sign(payload, secret, { algorithm: 'HS256' })
jwtSign(payload, secret) ==
    [form |-> "jwt", alg |-> "HS256", sig |-> secret, payload |-> payload]

NoPayload ==
    [type |-> undefined, fileId |-> undefined, permissions |-> undefined,
     userId |-> undefined, userName |-> undefined, sub |-> undefined,
     name |-> undefined, iat |-> 0, exp |-> 0]

\* No access_token query parameter and no Authorization header.
NoToken == [form |-> "absent", alg |-> undefined, sig |-> undefined,
            payload |-> NoPayload]

\* A string that is no JWT.
GarbageToken == [form |-> "garbage", alg |-> undefined, sig |-> undefined,
                 payload |-> NoPayload]

\* The payload reads the clock twice, once for iat and once more for exp:
\* iatNow and expNow are the two readings of Date.now(), iatNow <= expNow.
generateWopiToken(fileId, userId, permissions, iatNow, expNow) ==
    jwtSign([NoPayload EXCEPT
                !.fileId = fileId,
                !.permissions = permissions,
                !.userId = userId,
                !.userName = userName(userId),
                !.iat = epochSeconds(iatNow),
                !.exp = epochSeconds(expNow) + tokenTtlSeconds,
                !.type = "wopi_access"], jwtSecret)

generateAppToken(userId, iatNow, expNow) ==
    jwtSign([NoPayload EXCEPT
                !.sub = userId,
                !.name = userName(userId),
                !.iat = epochSeconds(iatNow),
                !.exp = epochSeconds(expNow) + tokenTtlSeconds,
                !.type = "app_auth"], jwtSecret)

\* jwt.verify(token, secret, { algorithms: ['HS256'] }): TRUE when it returns
\* the payload, FALSE when it throws (malformed, algorithm, signature, expiry).
jwtVerifies(token, secret, t) ==
    /\ token.form = "jwt"
    /\ token.alg = "HS256"
    /\ token.sig = secret
    /\ epochSeconds(t) < token.payload.exp

Null == [NoPayload EXCEPT !.type = "null"]

tsValidateWopiTokenAnyType(token, t) ==
    IF ~jwtVerifies(token, jwtSecret, t) THEN Null
    ELSE token.payload

\* tokenService.validateWopiToken: the decoded payload, or Null.
tsValidateWopiToken(token, t) ==
    IF ~jwtVerifies(token, jwtSecret, t) THEN Null
    ELSE IF token.payload.type # "wopi_access" THEN Null
    ELSE token.payload

\* tokenService.validateAppToken: { id, name }, or Null.
tsValidateAppToken(token, t) ==
    IF ~jwtVerifies(token, jwtSecret, t) THEN Null
    ELSE IF token.payload.type # "app_auth" THEN Null
    ELSE [NoPayload EXCEPT !.type = "user", !.userId = token.payload.sub,
                           !.userName = token.payload.name]

(***************************************************************************)
(* Map helpers (JavaScript Map on the stored keys)                         *)
(***************************************************************************)
MapHas(m, k) == k \in DOMAIN m
MapSet(m, k, v) == [x \in DOMAIN m \cup {k} |-> IF x = k THEN v ELSE m[x]]
MapDelete(m, k) == [x \in DOMAIN m \ {k} |-> m[x]]
EmptyMap == [x \in {} |-> undefined]

(***************************************************************************)
(* Server state and responses                                              *)
(***************************************************************************)
\* The state a handler reads: the two maps and the clock.
server ==
    [localDocuments |-> localDocuments, documentLocks |-> documentLocks,
     now |-> now]

\* Express res.set(name, value) stores String(value).
resSet(value) == IF value = undefined THEN "undefined" ELSE value

\* currentLock?.lockId || ''
lockIdOrEmpty(locks, f) ==
    IF MapHas(locks, f) /\ locks[f].lockId # undefined /\ locks[f].lockId # ""
    THEN locks[f].lockId ELSE ""

NoJson ==
    [BaseFileName |-> undefined, OwnerId |-> undefined, Size |-> -1,
     UserId |-> undefined, Version |-> <<>>, UserFriendlyName |-> undefined,
     UserCanWrite |-> FALSE, UserCanNotWriteRelative |-> FALSE,
     SupportsUpdate |-> FALSE, SupportsLocks |-> FALSE,
     SupportsGetLock |-> FALSE, SupportsRename |-> FALSE,
     ReadOnly |-> FALSE, LastModifiedTime |-> <<>>, ItemVersion |-> <<>>,
     Name |-> undefined]

\* A response: status, JSON error message, the X-WOPI-Lock and
\* X-WOPI-ItemVersion headers (undefined / <<>> when not set), the bytes
\* sent and the JSON body.
Response(status, error) ==
    [status |-> status, error |-> error, lock |-> undefined,
     version |-> <<>>, content |-> <<>>, json |-> NoJson]

\* What a handler leaves behind: the maps and the response.
Answer(s, response) ==
    [localDocuments |-> s.localDocuments, documentLocks |-> s.documentLocks,
     res |-> response]

(***************************************************************************)
(* WOPI token validation middleware                                        *)
(***************************************************************************)
validateWopiTokenAnyFile(token, fileId, t) ==
    IF token.form = "absent"
    THEN [status |-> 401, error |-> "Access token required", payload |-> Null]
    ELSE LET payload == tsValidateWopiToken(token, t) IN
         IF payload = Null
         THEN [status |-> 401, error |-> "Invalid or expired token",
               payload |-> Null]
         ELSE [status |-> 0, error |-> "", payload |-> payload]

\* validateWopiToken(req, res, next): status 0 stands for next(), payload
\* is then req.wopiToken (and req.wopiUser).
validateWopiToken(token, fileId, t) ==
    IF token.form = "absent"
    THEN [status |-> 401, error |-> "Access token required", payload |-> Null]
    ELSE LET payload == tsValidateWopiToken(token, t) IN
         IF payload = Null
         THEN [status |-> 401, error |-> "Invalid or expired token",
               payload |-> Null]
         ELSE IF payload.fileId # fileId
         THEN [status |-> 403, error |-> "Token not valid for this file",
               payload |-> Null]
         ELSE [status |-> 0, error |-> "", payload |-> payload]

\* validateAppAuth(req, res, next): the demo user without a Bearer header.
validateAppAuth(token, t) ==
    IF token.form = "absent"
    THEN [status |-> 0, userId |-> "demo-user-001"]
    ELSE LET user == tsValidateAppToken(token, t) IN
         IF user = Null THEN [status |-> 401, userId |-> undefined]
         ELSE [status |-> 0, userId |-> user.userId]

RejectionFileFirst(s, f, token) ==
    LET auth == validateWopiToken(token, f, s.now) IN
    IF ~MapHas(s.localDocuments, f) THEN Response(404, "File not found")
    ELSE IF auth.status # 0 THEN Response(auth.status, auth.error)
    ELSE Response(0, "")

\* What a synchronous WOPI route answers before its operation is evaluated:
\* the middleware's rejection, then 404 for an unknown file; status 0 when
\* the operation goes ahead.
Rejection(s, f, token) ==
    LET auth == validateWopiToken(token, f, s.now) IN
    IF auth.status # 0 THEN Response(auth.status, auth.error)
    ELSE IF ~MapHas(s.localDocuments, f) THEN Response(404, "File not found")
    ELSE Response(0, "")

(***************************************************************************)
(* GET /wopi/files/:fileId  (CheckFileInfo)                                *)
(***************************************************************************)
CheckFileInfoHandlerAllWritable(s, f, token) ==
    LET rejected == Rejection(s, f, token)
        doc == s.localDocuments[f]
        wopiToken == validateWopiToken(token, f, s.now).payload
        canWrite == wopiToken.permissions \in {"edit", "view"}
    IN
    IF rejected.status # 0 THEN Answer(s, rejected)
    ELSE Answer(s, [Response(200, "") EXCEPT !.json =
            [NoJson EXCEPT
                !.BaseFileName = doc.name,
                !.OwnerId = doc.ownerId,
                !.Size = doc.size,
                !.UserId = wopiToken.userId,
                !.Version = doc.lastModified,
                !.UserFriendlyName = wopiToken.userName,
                !.UserCanWrite = canWrite,
                !.UserCanNotWriteRelative = TRUE,
                !.SupportsUpdate = TRUE,
                !.SupportsLocks = TRUE,
                !.SupportsGetLock = TRUE,
                !.SupportsRename = TRUE,
                !.ReadOnly = ~canWrite,
                !.LastModifiedTime = doc.lastModified]])

CheckFileInfoHandler(s, f, token) ==
    LET rejected == Rejection(s, f, token)
        doc == s.localDocuments[f]
        wopiToken == validateWopiToken(token, f, s.now).payload
        canWrite == wopiToken.permissions = "edit"
    IN
    IF rejected.status # 0 THEN Answer(s, rejected)
    ELSE Answer(s, [Response(200, "") EXCEPT !.json =
            [NoJson EXCEPT
                !.BaseFileName = doc.name,
                !.OwnerId = doc.ownerId,
                !.Size = doc.size,
                !.UserId = wopiToken.userId,
                !.Version = doc.lastModified,
                !.UserFriendlyName = wopiToken.userName,
                !.UserCanWrite = canWrite,
                !.UserCanNotWriteRelative = TRUE,
                !.SupportsUpdate = TRUE,
                !.SupportsLocks = TRUE,
                !.SupportsGetLock = TRUE,
                !.SupportsRename = TRUE,
                !.ReadOnly = ~canWrite,
                !.LastModifiedTime = doc.lastModified]])

(***************************************************************************)
(* GET /wopi/files/:fileId/contents  (GetFile)                             *)
(***************************************************************************)
GetFileHandler(s, f, token) ==
    LET rejected == Rejection(s, f, token)
        doc == s.localDocuments[f]
    IN
    IF rejected.status # 0 THEN Answer(s, rejected)
    ELSE Answer(s, [Response(200, "") EXCEPT
                       !.version = doc.lastModified,
                       !.content = doc.content])

(***************************************************************************)
(* POST /wopi/files/:fileId/contents  (PutFile)                            *)
(***************************************************************************)
\* validateWopiToken; on next() express.raw starts reading the body and the
\* request waits with req.wopiToken attached.
PutFileMiddleware(s, f, token) ==
    LET auth == validateWopiToken(token, f, s.now) IN
    [res |-> Response(auth.status, auth.error),
     req |-> [fileId |-> f, permissions |-> auth.payload.permissions]]

PutFileUpdateKeepsContent(s, req, body) ==
    LET f == req.fileId
        doc == s.localDocuments[f]
        lastModified == toISOString(s.now)
    IN
    [localDocuments |->
        MapSet(s.localDocuments, f,
               [doc EXCEPT !.size = Len(body),
                           !.lastModified = lastModified]),
     documentLocks |-> s.documentLocks,
     res |-> [Response(200, "") EXCEPT
                 !.version = lastModified,
                 !.json.LastModifiedTime = lastModified,
                 !.json.ItemVersion = lastModified]]

PutFileUpdate(s, req, body) ==
    LET f == req.fileId
        doc == s.localDocuments[f]
        lastModified == toISOString(s.now)
    IN
    [localDocuments |->
        MapSet(s.localDocuments, f,
               [doc EXCEPT !.content = body,
                           !.size = Len(body),
                           !.lastModified = lastModified]),
     documentLocks |-> s.documentLocks,
     res |-> [Response(200, "") EXCEPT
                 !.version = lastModified,
                 !.json.LastModifiedTime = lastModified,
                 !.json.ItemVersion = lastModified]]

PutFileHandlerAbsentHeaderPasses(s, req, requestLock, body) ==
    LET f == req.fileId
        lock == s.documentLocks[f]
    IN
    IF ~MapHas(s.localDocuments, f)
    THEN Answer(s, Response(404, "File not found"))
    ELSE IF req.permissions # "edit"
    THEN Answer(s, Response(403, "Write permission required"))
    ELSE IF MapHas(s.documentLocks, f) /\ requestLock # undefined
            /\ requestLock # lock.lockId
    THEN Answer(s, [Response(409, "Lock mismatch") EXCEPT
                       !.lock = resSet(lock.lockId)])
    ELSE PutFileUpdate(s, req, body)

PutFileHandlerLockFirst(s, req, requestLock, body) ==
    LET f == req.fileId
        lock == s.documentLocks[f]
    IN
    IF ~MapHas(s.localDocuments, f)
    THEN Answer(s, Response(404, "File not found"))
    ELSE IF MapHas(s.documentLocks, f) /\ requestLock # lock.lockId
    THEN Answer(s, [Response(409, "Lock mismatch") EXCEPT
                       !.lock = resSet(lock.lockId)])
    ELSE IF req.permissions # "edit"
    THEN Answer(s, Response(403, "Write permission required"))
    ELSE PutFileUpdate(s, req, body)

PutFileHandlerNeedsLock(s, req, requestLock, body) ==
    LET f == req.fileId
        lock == s.documentLocks[f]
    IN
    IF ~MapHas(s.localDocuments, f)
    THEN Answer(s, Response(404, "File not found"))
    ELSE IF req.permissions # "edit"
    THEN Answer(s, Response(403, "Write permission required"))
    ELSE IF ~MapHas(s.documentLocks, f)
    THEN Answer(s, [Response(409, "Lock mismatch") EXCEPT !.lock = ""])
    ELSE IF requestLock # lock.lockId
    THEN Answer(s, [Response(409, "Lock mismatch") EXCEPT
                       !.lock = resSet(lock.lockId)])
    ELSE PutFileUpdate(s, req, body)

PutFileHandlerWritesBeforeLockCheck(s, req, requestLock, body) ==
    LET f == req.fileId
        lock == s.documentLocks[f]
    IN
    IF ~MapHas(s.localDocuments, f)
    THEN Answer(s, Response(404, "File not found"))
    ELSE IF req.permissions # "edit"
    THEN Answer(s, Response(403, "Write permission required"))
    ELSE IF MapHas(s.documentLocks, f) /\ requestLock # lock.lockId
    THEN [PutFileUpdate(s, req, body) EXCEPT
             !.res = [Response(409, "Lock mismatch") EXCEPT
                         !.lock = resSet(lock.lockId)]]
    ELSE PutFileUpdate(s, req, body)

\* The handler proper, once the body has been read.
PutFileHandler(s, req, requestLock, body) ==
    LET f == req.fileId
        lock == s.documentLocks[f]
    IN
    IF ~MapHas(s.localDocuments, f)
    THEN Answer(s, Response(404, "File not found"))
    ELSE IF req.permissions # "edit"
    THEN Answer(s, Response(403, "Write permission required"))
    ELSE IF MapHas(s.documentLocks, f) /\ requestLock # lock.lockId
    THEN Answer(s, [Response(409, "Lock mismatch") EXCEPT
                       !.lock = resSet(lock.lockId)])
    ELSE PutFileUpdate(s, req, body)

(***************************************************************************)
(* POST /wopi/files/:fileId  (X-WOPI-Override selects the operation)       *)
(***************************************************************************)
\* { lockId: requestLock, userId: req.wopiUser.id, timestamp: Date.now() }
newLock(requestLock, userId, t) ==
    [lockId |-> requestLock, userId |-> userId, timestamp |-> t]

LockAnswer(s, locks, status, error, lockHeader) ==
    [localDocuments |-> s.localDocuments, documentLocks |-> locks,
     res |-> [Response(status, error) EXCEPT !.lock = resSet(lockHeader)]]

LockCaseEchoesRequest(s, f, userId, requestLock) ==
    LET currentLock == s.documentLocks[f] IN
    IF MapHas(s.documentLocks, f)
    THEN IF currentLock.lockId = requestLock
         THEN LockAnswer(s, [s.documentLocks EXCEPT ![f].timestamp = s.now],
                         200, "", currentLock.lockId)
         ELSE LockAnswer(s, s.documentLocks, 409, "Lock conflict",
                         requestLock)
    ELSE LockAnswer(s, MapSet(s.documentLocks, f,
                              newLock(requestLock, userId, s.now)),
                    200, "", requestLock)

LockCaseAlwaysGrants(s, f, userId, requestLock) ==
    LockAnswer(s, MapSet(s.documentLocks, f,
                         newLock(requestLock, userId, s.now)),
               200, "", requestLock)

LockCaseRefusesRelock(s, f, userId, requestLock) ==
    LET currentLock == s.documentLocks[f] IN
    IF MapHas(s.documentLocks, f)
    THEN LockAnswer(s, s.documentLocks, 409, "Lock conflict",
                    currentLock.lockId)
    ELSE LockAnswer(s, MapSet(s.documentLocks, f,
                              newLock(requestLock, userId, s.now)),
                    200, "", requestLock)

LockCaseServerWideLock(s, f, userId, requestLock) ==
    LET others == DOMAIN s.documentLocks \ {f}
        g == CHOOSE x \in others : TRUE
    IN
    IF MapHas(s.documentLocks, f)
    THEN IF s.documentLocks[f].lockId = requestLock
         THEN LockAnswer(s, [s.documentLocks EXCEPT ![f].timestamp = s.now],
                         200, "", s.documentLocks[f].lockId)
         ELSE LockAnswer(s, s.documentLocks, 409, "Lock conflict",
                         s.documentLocks[f].lockId)
    ELSE IF others # {}
    THEN LockAnswer(s, s.documentLocks, 409, "Lock conflict",
                    s.documentLocks[g].lockId)
    ELSE LockAnswer(s, MapSet(s.documentLocks, f,
                              newLock(requestLock, userId, s.now)),
                    200, "", requestLock)

LockCaseHolderOnly(s, f, userId, requestLock) ==
    LET currentLock == s.documentLocks[f] IN
    IF MapHas(s.documentLocks, f)
    THEN IF currentLock.lockId = requestLock /\ currentLock.userId = userId
         THEN LockAnswer(s, [s.documentLocks EXCEPT ![f].timestamp = s.now],
                         200, "", currentLock.lockId)
         ELSE LockAnswer(s, s.documentLocks, 409, "Lock conflict",
                         currentLock.lockId)
    ELSE LockAnswer(s, MapSet(s.documentLocks, f,
                              newLock(requestLock, userId, s.now)),
                    200, "", requestLock)

\* case 'LOCK'
LockCase(s, f, userId, requestLock) ==
    LET currentLock == s.documentLocks[f] IN
    IF MapHas(s.documentLocks, f)
    THEN IF currentLock.lockId = requestLock
         THEN LockAnswer(s, [s.documentLocks EXCEPT ![f].timestamp = s.now],
                         200, "", currentLock.lockId)
         ELSE LockAnswer(s, s.documentLocks, 409, "Lock conflict",
                         currentLock.lockId)
    ELSE LockAnswer(s, MapSet(s.documentLocks, f,
                              newLock(requestLock, userId, s.now)),
                    200, "", requestLock)

GetLockCaseAlwaysEmpty(s, f) ==
    LockAnswer(s, s.documentLocks, 200, "", "")

\* case 'GET_LOCK'
GetLockCase(s, f) ==
    LockAnswer(s, s.documentLocks, 200, "", lockIdOrEmpty(s.documentLocks, f))

RefreshLockCaseCreates(s, f, requestLock) ==
    IF ~MapHas(s.documentLocks, f)
    THEN LockAnswer(s, MapSet(s.documentLocks, f,
                              newLock(requestLock, undefined, s.now)),
                    200, "", requestLock)
    ELSE IF s.documentLocks[f].lockId # requestLock
    THEN LockAnswer(s, s.documentLocks, 409, "Lock mismatch",
                    lockIdOrEmpty(s.documentLocks, f))
    ELSE LockAnswer(s, [s.documentLocks EXCEPT ![f].timestamp = s.now],
                    200, "", s.documentLocks[f].lockId)

\* case 'REFRESH_LOCK'
RefreshLockCase(s, f, requestLock) ==
    IF ~MapHas(s.documentLocks, f) \/ s.documentLocks[f].lockId # requestLock
    THEN LockAnswer(s, s.documentLocks, 409, "Lock mismatch",
                    lockIdOrEmpty(s.documentLocks, f))
    ELSE LockAnswer(s, [s.documentLocks EXCEPT ![f].timestamp = s.now],
                    200, "", s.documentLocks[f].lockId)

UnlockCaseAnyToken(s, f, requestLock) ==
    IF ~MapHas(s.documentLocks, f)
    THEN LockAnswer(s, s.documentLocks, 409, "Lock mismatch",
                    lockIdOrEmpty(s.documentLocks, f))
    ELSE LockAnswer(s, MapDelete(s.documentLocks, f), 200, "", "")

UnlockCaseEchoesReleased(s, f, requestLock) ==
    IF ~MapHas(s.documentLocks, f) \/ s.documentLocks[f].lockId # requestLock
    THEN LockAnswer(s, s.documentLocks, 409, "Lock mismatch",
                    lockIdOrEmpty(s.documentLocks, f))
    ELSE LockAnswer(s, MapDelete(s.documentLocks, f), 200, "", requestLock)

UnlockCaseRemovesDocument(s, f, requestLock) ==
    IF ~MapHas(s.documentLocks, f) \/ s.documentLocks[f].lockId # requestLock
    THEN LockAnswer(s, s.documentLocks, 409, "Lock mismatch",
                    lockIdOrEmpty(s.documentLocks, f))
    ELSE [LockAnswer(s, MapDelete(s.documentLocks, f), 200, "", "")
             EXCEPT !.localDocuments = MapDelete(s.localDocuments, f)]

\* case 'UNLOCK'
UnlockCase(s, f, requestLock) ==
    IF ~MapHas(s.documentLocks, f) \/ s.documentLocks[f].lockId # requestLock
    THEN LockAnswer(s, s.documentLocks, 409, "Lock mismatch",
                    lockIdOrEmpty(s.documentLocks, f))
    ELSE LockAnswer(s, MapDelete(s.documentLocks, f), 200, "", "")

UnlockAndRelockCaseUnlocksOnly(s, f, userId, oldLock, requestLock) ==
    IF ~MapHas(s.documentLocks, f) \/ s.documentLocks[f].lockId # oldLock
    THEN LockAnswer(s, s.documentLocks, 409, "Lock mismatch",
                    lockIdOrEmpty(s.documentLocks, f))
    ELSE LockAnswer(s, MapDelete(s.documentLocks, f), 200, "", requestLock)

\* case 'UNLOCK_AND_RELOCK'
UnlockAndRelockCase(s, f, userId, oldLock, requestLock) ==
    IF ~MapHas(s.documentLocks, f) \/ s.documentLocks[f].lockId # oldLock
    THEN LockAnswer(s, s.documentLocks, 409, "Lock mismatch",
                    lockIdOrEmpty(s.documentLocks, f))
    ELSE LockAnswer(s, MapSet(s.documentLocks, f,
                              newLock(requestLock, userId, s.now)),
                    200, "", requestLock)

PutRelativeCaseSilent(s) == Answer(s, Response(200, ""))

\* case 'PUT_RELATIVE'
PutRelativeCase(s) == Answer(s, Response(501, "Not implemented"))

\* decodeURIComponent on the requested names; "URIError" when it throws.
decodeURIComponent(name) ==
    CASE name = "Q3%20plan.docx" -> "Q3 plan.docx"
      [] name = "100%.docx" -> "URIError"
      [] OTHER -> name

RenameFileCaseRefusedWhenLocked(s, f, newName) ==
    LET doc == s.localDocuments[f] IN
    IF MapHas(s.documentLocks, f)
    THEN LockAnswer(s, s.documentLocks, 409, "Lock mismatch",
                    lockIdOrEmpty(s.documentLocks, f))
    ELSE IF newName = undefined \/ newName = ""
    THEN Answer(s, [Response(200, "") EXCEPT !.json.Name = doc.name])
    ELSE IF decodeURIComponent(newName) = "URIError"
    THEN Answer(s, Response(500, "URIError"))
    ELSE [localDocuments |->
             MapSet(s.localDocuments, f,
                    [doc EXCEPT !.name = decodeURIComponent(newName),
                                !.lastModified = toISOString(s.now)]),
          documentLocks |-> s.documentLocks,
          res |-> [Response(200, "") EXCEPT
                      !.json.Name = decodeURIComponent(newName)]]

\* case 'RENAME_FILE'; an exception thrown by the handler is answered 500
\* by Express.
RenameFileCase(s, f, newName) ==
    LET doc == s.localDocuments[f] IN
    IF newName = undefined \/ newName = ""
    THEN Answer(s, [Response(200, "") EXCEPT !.json.Name = doc.name])
    ELSE IF decodeURIComponent(newName) = "URIError"
    THEN Answer(s, Response(500, "URIError"))
    ELSE [localDocuments |->
             MapSet(s.localDocuments, f,
                    [doc EXCEPT !.name = decodeURIComponent(newName),
                                !.lastModified = toISOString(s.now)]),
          documentLocks |-> s.documentLocks,
          res |-> [Response(200, "") EXCEPT
                      !.json.Name = decodeURIComponent(newName)]]

\* default
UnknownCase(s) == Answer(s, Response(400, "Unknown WOPI operation"))

\* The request headers the handler reads.
Headers(override, requestLock, oldLock, requestedName) ==
    [override |-> override, lock |-> requestLock, oldLock |-> oldLock,
     requestedName |-> requestedName]

WopiPostHandlerLocksUnknownFiles(s, f, token, headers) ==
    LET auth == validateWopiToken(token, f, s.now)
        rejected == Rejection(s, f, token)
        wopiUser == auth.payload
    IN
    IF auth.status # 0 THEN Answer(s, Response(auth.status, auth.error))
    ELSE CASE headers.override = "LOCK" ->
                 LockCase(s, f, wopiUser.userId, headers.lock)
           [] headers.override = "GET_LOCK" -> GetLockCase(s, f)
           [] headers.override = "REFRESH_LOCK" ->
                 RefreshLockCase(s, f, headers.lock)
           [] headers.override = "UNLOCK" -> UnlockCase(s, f, headers.lock)
           [] headers.override = "UNLOCK_AND_RELOCK" ->
                 UnlockAndRelockCase(s, f, wopiUser.userId, headers.oldLock,
                                     headers.lock)
           [] rejected.status # 0 -> Answer(s, rejected)
           [] headers.override = "PUT_RELATIVE" -> PutRelativeCase(s)
           [] headers.override = "RENAME_FILE" ->
                 RenameFileCase(s, f, headers.requestedName)
           [] OTHER -> UnknownCase(s)

\* app.post('/wopi/files/:fileId', validateWopiToken, ...)
WopiPostHandler(s, f, token, headers) ==
    LET rejected == Rejection(s, f, token)
        wopiUser == validateWopiToken(token, f, s.now).payload
    IN
    IF rejected.status # 0 THEN Answer(s, rejected)
    ELSE CASE headers.override = "LOCK" ->
                 LockCase(s, f, wopiUser.userId, headers.lock)
           [] headers.override = "GET_LOCK" -> GetLockCase(s, f)
           [] headers.override = "REFRESH_LOCK" ->
                 RefreshLockCase(s, f, headers.lock)
           [] headers.override = "UNLOCK" -> UnlockCase(s, f, headers.lock)
           [] headers.override = "UNLOCK_AND_RELOCK" ->
                 UnlockAndRelockCase(s, f, wopiUser.userId, headers.oldLock,
                                     headers.lock)
           [] headers.override = "PUT_RELATIVE" -> PutRelativeCase(s)
           [] headers.override = "RENAME_FILE" ->
                 RenameFileCase(s, f, headers.requestedName)
           [] OTHER -> UnknownCase(s)

(***************************************************************************)
(* POST /api/documents/upload                                              *)
(***************************************************************************)
\* docId is what crypto.randomBytes names: a document not stored yet.
UploadHandler(s, token, docId, content) ==
    LET auth == validateAppAuth(token, s.now) IN
    IF auth.status # 0
    THEN Answer(s, Response(401, "Invalid authentication token"))
    ELSE [localDocuments |->
             MapSet(s.localDocuments, docId,
                    [id |-> docId, name |-> UploadName, content |-> content,
                     size |-> Len(content),
                     lastModified |-> toISOString(s.now),
                     ownerId |-> auth.userId]),
          documentLocks |-> s.documentLocks,
          res |-> [Response(200, "") EXCEPT
                      !.json.Name = UploadName,
                      !.json.Size = Len(content),
                      !.json.LastModifiedTime = toISOString(s.now)]]

(***************************************************************************)
(* Tokens a request may present                                            *)
(***************************************************************************)
\* When a token presented at time t was issued: at startup, or in the
\* current second.
IssueTimes(t) == {0, epochSeconds(t) * 1000}

WopiTokensFor(f, t) ==
    {generateWopiToken(f, u, p, at, at) :
        u \in TokenUsers(f), p \in TokenPermissions(f), at \in IssueTimes(t)}

WopiTokens(t) == UNION {WopiTokensFor(f, t) : f \in FileIds}

AppTokens(t) ==
    {generateAppToken("demo-user-001", at, at) : at \in IssueTimes(t)}

\* Signed with another key, or with the algorithm switched off.
ForgedTokens(t) ==
    LET good ==
            generateWopiToken("sample-doc-001", "demo-user-001", "edit", t, t)
    IN {[good EXCEPT !.sig = "other-secret"],
        [good EXCEPT !.alg = "none", !.sig = undefined]}

\* Every token a request may carry at time t.
AnyToken(t) ==
    {NoToken, GarbageToken} \cup ForgedTokens(t) \cup AppTokens(t)
        \cup WopiTokens(t)

\* The tokens the requests of a behaviour carry on the path of f: none, the
\* ones issued for f in the current second, one issued for f at startup,
\* and one issued for each other document.  The other rejected tokens of
\* AnyToken change nothing either.
RequestTokens(f, t) ==
    {NoToken}
        \cup {generateWopiToken(f, u, p, t, t) :
                 u \in TokenUsers(f), p \in TokenPermissions(f)}
        \cup {generateWopiToken(f, "demo-user-001", "edit", 0, 0)}
        \cup {generateWopiToken(g, "demo-user-001", "edit", t, t) :
                 g \in FileIds \ {f}}

Overrides ==
    {"LOCK", "GET_LOCK", "REFRESH_LOCK", "UNLOCK", "UNLOCK_AND_RELOCK",
     "PUT_RELATIVE", "RENAME_FILE", "COBALT"}

(***************************************************************************)
(* Initial state: the sample document is loaded from disk                  *)
(***************************************************************************)
sampleDocument(id) ==
    [id |-> id, name |-> SampleName, content |-> SampleContent,
     size |-> Len(SampleContent), lastModified |-> toISOString(0),
     ownerId |-> "demo-user-001"]

NoIssue == [fileId |-> undefined, userId |-> undefined,
            permissions |-> undefined, at |-> 0, token |-> NoToken]

NoVerdict == [by |-> "", at |-> 0, result |-> Null]

Init ==
    /\ localDocuments = [id \in SampleIds |-> sampleDocument(id)]
    /\ documentLocks = EmptyMap
    /\ now = 0
    /\ pending = {}
    /\ held = NoIssue
    /\ verdict = NoVerdict
    /\ discoveryCache = EmptyMap
    /\ fetching = [url \in {} |-> 0]
    /\ resolved = [url |-> undefined, urlPath |-> undefined]

(***************************************************************************)
(* Actions                                                                 *)
(***************************************************************************)
\* The maps become what the handler left.
Apply(answer) ==
    /\ localDocuments' = answer.localDocuments
    /\ documentLocks' = answer.documentLocks

TickExpiresLocks ==
    /\ now < MaxNow
    /\ now' = now + TickMs
    /\ documentLocks' =
          [f \in {g \in DOMAIN documentLocks :
                     documentLocks[g].timestamp + tokenTtlSeconds * 1000
                        > now + TickMs} |-> documentLocks[f]]
    /\ UNCHANGED <<localDocuments, pending, held, verdict, discovery>>

Tick ==
    /\ now < MaxNow
    /\ now' = now + TickMs
    /\ UNCHANGED <<localDocuments, documentLocks, pending, held, verdict, discovery>>

Upload(token, content) ==
    /\ \E docId \in FileIds \ (SampleIds \cup DOMAIN localDocuments) :
          Apply(UploadHandler(server, token, docId, content))
    /\ UNCHANGED <<now, pending, held, verdict, discovery>>

CheckFileInfo(f, token) ==
    /\ Apply(CheckFileInfoHandler(server, f, token))
    /\ UNCHANGED <<now, pending, held, verdict, discovery>>

GetFile(f, token) ==
    /\ Apply(GetFileHandler(server, f, token))
    /\ UNCHANGED <<now, pending, held, verdict, discovery>>

PutFileBegin(f, token) ==
    LET mw == PutFileMiddleware(server, f, token) IN
    /\ IF mw.res.status # 0
       THEN UNCHANGED pending
       ELSE /\ Cardinality(pending) < MaxPending
            /\ pending' = pending \cup {mw.req}
    /\ UNCHANGED <<localDocuments, documentLocks, now, held, verdict, discovery>>

PutFile(req, requestLock, body) ==
    /\ req \in pending
    /\ pending' = pending \ {req}
    /\ Apply(PutFileHandler(server, req, requestLock, body))
    /\ UNCHANGED <<now, held, verdict, discovery>>

WopiPost(f, token, headers) ==
    /\ Apply(WopiPostHandler(server, f, token, headers))
    /\ UNCHANGED <<now, pending, held, verdict, discovery>>

Lock(f, token, requestLock) ==
    WopiPost(f, token, Headers("LOCK", requestLock, undefined, undefined))

GetLock(f, token) ==
    WopiPost(f, token, Headers("GET_LOCK", undefined, undefined, undefined))

RefreshLock(f, token, requestLock) ==
    WopiPost(f, token,
             Headers("REFRESH_LOCK", requestLock, undefined, undefined))

Unlock(f, token, requestLock) ==
    WopiPost(f, token, Headers("UNLOCK", requestLock, undefined, undefined))

UnlockAndRelock(f, token, oldLock, requestLock) ==
    WopiPost(f, token,
             Headers("UNLOCK_AND_RELOCK", requestLock, oldLock, undefined))

PutRelative(f, token) ==
    WopiPost(f, token, Headers("PUT_RELATIVE", undefined, undefined, undefined))

RenameFile(f, token, newName) ==
    WopiPost(f, token, Headers("RENAME_FILE", undefined, undefined, newName))

UnknownOperation(f, token) ==
    WopiPost(f, token, Headers("COBALT", undefined, undefined, undefined))

Next ==
    \/ Tick
    \/ \E token \in {NoToken} \cup AppTokens(now), content \in Bodies :
          Upload(token, content)
    \/ \E f \in FileIds : \E token \in RequestTokens(f, now) :
          CheckFileInfo(f, token)
    \/ \E f \in FileIds : \E token \in RequestTokens(f, now) :
          GetFile(f, token)
    \/ \E f \in FileIds : \E token \in RequestTokens(f, now) :
          PutFileBegin(f, token)
    \/ \E req \in pending, body \in Bodies :
          \E requestLock \in LockHeaders(req.fileId) \cup {undefined} :
             PutFile(req, requestLock, body)
    \/ \E f \in FileIds :
          \E token \in RequestTokens(f, now), requestLock \in LockHeaders(f) :
             Lock(f, token, requestLock)
    \/ \E f \in FileIds : \E token \in RequestTokens(f, now) :
          GetLock(f, token)
    \/ \E f \in FileIds :
          \E token \in RequestTokens(f, now), requestLock \in LockHeaders(f) :
             RefreshLock(f, token, requestLock)
    \/ \E f \in FileIds :
          \E token \in RequestTokens(f, now), requestLock \in LockHeaders(f) :
             Unlock(f, token, requestLock)
    \/ \E f \in FileIds :
          \E token \in RequestTokens(f, now), oldLock \in LockHeaders(f),
             requestLock \in LockHeaders(f) \cap LockTokens :
             UnlockAndRelock(f, token, oldLock, requestLock)
    \/ \E f \in FileIds : \E token \in RequestTokens(f, now) :
          PutRelative(f, token)
    \/ \E f \in FileIds :
          \E token \in RequestTokens(f, now), newName \in RequestedNames(f) :
             RenameFile(f, token, newName)
    \/ \E f \in FileIds : \E token \in RequestTokens(f, now) :
          UnknownOperation(f, token)

Spec == Init /\ [][Next]_vars

(***************************************************************************)
(* The token service on its own: a client is issued a token by one of the  *)
(* two issuing endpoints and presents it, now or later, to either          *)
(* validator.                                                              *)
(***************************************************************************)
\* The readings of Date.now() a handler entered at time t may make next:
\* the same millisecond, or the clock has moved on.
LaterReads(t) == IF t < MaxTokenNow THEN {t, t + TokenTickMs} ELSE {t}

\* POST /api/auth/token: an application token for the named user.
AuthTokenHandler(s, userId, expNow) ==
    [fileId |-> undefined, userId |-> userId, permissions |-> undefined,
     at |-> s.now, token |-> generateAppToken(userId, s.now, expNow)]

\* POST /api/documents/:fileId/token, with the bearer token (or none) the
\* client holds: 401 and 404 issue nothing.
DocumentTokenHandler(s, bearer, f, permissions, expNow) ==
    LET auth == validateAppAuth(bearer, s.now) IN
    IF auth.status # 0 THEN NoIssue
    ELSE IF ~MapHas(s.localDocuments, f) THEN NoIssue
    ELSE [fileId |-> f, userId |-> auth.userId, permissions |-> permissions,
          at |-> s.now,
          token |-> generateWopiToken(f, auth.userId, permissions, s.now,
                                      expNow)]

TokenTick ==
    /\ now < MaxTokenNow
    /\ now' = now + TokenTickMs
    /\ UNCHANGED <<localDocuments, documentLocks, pending, held, verdict, discovery>>

AuthToken(userId, expNow) ==
    /\ held' = AuthTokenHandler(server, userId, expNow)
    /\ verdict' = NoVerdict
    /\ now' = expNow
    /\ UNCHANGED <<localDocuments, documentLocks, pending, discovery>>

DocumentToken(f, permissions, expNow) ==
    /\ held' = DocumentTokenHandler(server, held.token, f, permissions,
                                    expNow)
    /\ verdict' = NoVerdict
    /\ now' = expNow
    /\ UNCHANGED <<localDocuments, documentLocks, pending, discovery>>

PresentWopiToken ==
    /\ verdict' = [by |-> "validateWopiToken", at |-> now,
                   result |-> tsValidateWopiToken(held.token, now)]
    /\ UNCHANGED <<localDocuments, documentLocks, now, pending, held, discovery>>

PresentAppToken ==
    /\ verdict' = [by |-> "validateAppToken", at |-> now,
                   result |-> tsValidateAppToken(held.token, now)]
    /\ UNCHANGED <<localDocuments, documentLocks, now, pending, held, discovery>>

TokenNext ==
    \/ TokenTick
    \/ \E userId \in UserIds, expNow \in LaterReads(now) :
          AuthToken(userId, expNow)
    \/ \E f \in FileIds, permissions \in Permissions,
          expNow \in LaterReads(now) :
          DocumentToken(f, permissions, expNow)
    \/ PresentWopiToken
    \/ PresentAppToken

TokenSpec == Init /\ [][TokenNext]_vars

(***************************************************************************)
(* WOPI endpoint properties (under Spec).  A property of a request is      *)
(* stated on the handler's answer in every reachable state of the server.  *)
(***************************************************************************)
\* The middleware lets the token through on the path of f.
ValidFor(f, token) == validateWopiToken(token, f, now).status = 0

\* The server as the answer of a handler leaves it.
After(s, answer) ==
    [s EXCEPT !.localDocuments = answer.localDocuments,
              !.documentLocks = answer.documentLocks]

\* The tokens issued for f that the middleware lets through now.
ValidTokens(f) == {token \in WopiTokensFor(f, now) : ValidFor(f, token)}

LockRequest(t) == Headers("LOCK", t, undefined, undefined)

\* The X-WOPI-Lock values of the claims: the lock tokens, or no header.
AnyLockHeader == LockTokens \cup {undefined}

\* One request of each operation with each of the headers it reads.
Requests ==
    {Headers(o, t, undefined, undefined) :
        o \in {"LOCK", "REFRESH_LOCK", "UNLOCK"}, t \in AnyLockHeader}
    \cup {Headers("UNLOCK_AND_RELOCK", t2, t1, undefined) :
             t1 \in LockTokens, t2 \in LockTokens}
    \cup {Headers(o, undefined, undefined, undefined) :
             o \in {"GET_LOCK", "PUT_RELATIVE", "COBALT"}}
    \cup {Headers("RENAME_FILE", undefined, undefined, n) :
             n \in {undefined, "Q3%20plan.docx"}}

\* C1: for every file and distinct lock tokens t1, t2: when the file is
\* locked with t1, a LOCK carrying t2 with a valid token for the file is
\* answered 409 with X-WOPI-Lock = t1, and the file stays locked with t1 by
\* the same holder.
C1_LockConflictKeepsHolder ==
    \A f \in DOMAIN documentLocks :
       \A token \in AnyToken(now), t2 \in LockTokens :
          LET t1 == documentLocks[f].lockId
              a == WopiPostHandler(server, f, token, LockRequest(t2))
          IN (ValidFor(f, token) /\ t1 \in LockTokens /\ t1 # t2) =>
                /\ a.res.status = 409
                /\ a.res.lock = t1
                /\ MapHas(a.documentLocks, f)
                /\ a.documentLocks[f].lockId = t1
                /\ a.documentLocks[f].userId = documentLocks[f].userId

\* A file locked with t1 by one user, and another user's LOCK(t2) refused.
C1_ConflictingLockRefused ==
    \E f \in DOMAIN documentLocks :
       \E token \in RequestTokens(f, now), t2 \in LockTokens :
          /\ ValidFor(f, token)
          /\ documentLocks[f].lockId \in LockTokens \ {t2}
          /\ documentLocks[f].userId # token.payload.userId
          /\ WopiPostHandler(server, f, token, LockRequest(t2)).res.status
                = 409

\* C2: two callers send LOCK with distinct lock tokens for the same unlocked
\* file: in either order of the two requests the first is answered 200, the
\* other 409 with X-WOPI-Lock = the winner's token, and the one lock the
\* file holds is the winner's.
C2_LockRaceOneWinner ==
    \A f \in DOMAIN localDocuments \ DOMAIN documentLocks :
       \A tokenA \in ValidTokens(f), tokenB \in ValidTokens(f),
          tA \in LockTokens, tB \in LockTokens :
          LET first == WopiPostHandler(server, f, tokenA, LockRequest(tA))
              second == WopiPostHandler(After(server, first), f, tokenB,
                                        LockRequest(tB))
          IN tA # tB =>
                /\ first.res.status = 200
                /\ first.res.lock = tA
                /\ second.res.status = 409
                /\ second.res.lock = tA
                /\ DOMAIN second.documentLocks = DOMAIN documentLocks \cup {f}
                /\ second.documentLocks[f].lockId = tA
                /\ second.documentLocks[f].userId = tokenA.payload.userId

\* An unlocked file for which two different users hold valid tokens, while
\* another file is locked: the race run in both orders.
C2_TwoUsersRace ==
    \E f \in DOMAIN localDocuments \ DOMAIN documentLocks :
       \E tokenA \in RequestTokens(f, now), tokenB \in RequestTokens(f, now) :
          LET ab == WopiPostHandler(
                       After(server, WopiPostHandler(server, f, tokenA,
                                                     LockRequest("L1"))),
                       f, tokenB, LockRequest("L2"))
              ba == WopiPostHandler(
                       After(server, WopiPostHandler(server, f, tokenB,
                                                     LockRequest("L2"))),
                       f, tokenA, LockRequest("L1"))
          IN /\ DOMAIN documentLocks # {}
             /\ ValidFor(f, tokenA) /\ ValidFor(f, tokenB)
             /\ tokenA.payload.userId # tokenB.payload.userId
             /\ ab.res.status = 409 /\ ab.res.lock = "L1"
             /\ ba.res.status = 409 /\ ba.res.lock = "L2"

\* What another caller's next request sees of the lock of f in state s:
\* GET_LOCK returns t, LOCK with another token is refused, PutFile with
\* another lock header is refused.
ObservedLocked(s, f, t) ==
    \A token \in RequestTokens(f, s.now) :
       validateWopiToken(token, f, s.now).status = 0 =>
          /\ WopiPostHandler(s, f, token,
                Headers("GET_LOCK", undefined, undefined, undefined)).res.lock
                = t
          /\ \A t3 \in AnyLockHeader \ {t} :
                /\ WopiPostHandler(s, f, token, LockRequest(t3)).res.status
                      = 409
                /\ \A body \in Bodies :
                      PutFileHandler(s, PutFileMiddleware(s, f, token).req,
                                     t3, body).res.status # 200

\* C3: UNLOCK_AND_RELOCK with X-WOPI-OldLock = t1 and X-WOPI-Lock = t2 on a
\* file locked with t1 is answered 200 and leaves the file locked with t2 by
\* the caller in one step, so that the next request of any caller (LOCK,
\* GET_LOCK, PutFile) finds it locked with t2, never unlocked; when the held
\* token is not t1, or the file is unlocked, the answer is 409 and the lock
\* state is unchanged.
C3_UnlockAndRelockOneStep ==
    \A f \in DOMAIN localDocuments :
       \A token \in ValidTokens(f), t1 \in LockTokens, t2 \in LockTokens :
          LET a == WopiPostHandler(server, f, token,
                      Headers("UNLOCK_AND_RELOCK", t2, t1, undefined))
          IN IF MapHas(documentLocks, f) /\ documentLocks[f].lockId = t1
             THEN /\ a.res.status = 200
                  /\ a.res.lock = t2
                  /\ MapHas(a.documentLocks, f)
                  /\ a.documentLocks[f].lockId = t2
                  /\ a.documentLocks[f].userId = token.payload.userId
                  /\ ObservedLocked(After(server, a), f, t2)
             ELSE /\ a.res.status = 409
                  /\ a.documentLocks = documentLocks

\* A file locked with t1 by one user is relocked with another token by
\* another user.
C3_RelockedByAnotherUser ==
    \E f \in DOMAIN documentLocks :
       \E token \in RequestTokens(f, now), t2 \in LockTokens :
          LET t1 == documentLocks[f].lockId
              a == WopiPostHandler(server, f, token,
                      Headers("UNLOCK_AND_RELOCK", t2, t1, undefined))
          IN /\ ValidFor(f, token)
             /\ t1 \in LockTokens \ {t2}
             /\ documentLocks[f].userId # token.payload.userId
             /\ a.res.status = 200
             /\ a.documentLocks[f].lockId = t2

\* C4: a PutFile with an edit token on a file holding a lock whose token
\* differs from the request's X-WOPI-Lock header (an absent header
\* included) is answered 409 with X-WOPI-Lock = the held token, and the
\* document (content, size, lastModified) is unchanged; so no PutFile
\* succeeds while such a lock is held.
C4_PutFileLockMismatch ==
    \A req \in pending :
       \A requestLock \in AnyLockHeader, body \in Bodies :
          LET f == req.fileId
              a == PutFileHandler(server, req, requestLock, body)
          IN (/\ req.permissions = "edit"
              /\ MapHas(documentLocks, f)
              /\ documentLocks[f].lockId \in LockTokens \ {requestLock}) =>
                /\ a.res.status = 409
                /\ a.res.lock = documentLocks[f].lockId
                /\ a.localDocuments = localDocuments

\* An edit PutFile whose body has been read arrives without a lock header
\* at a locked file whose content the body would change.
C4_UnlockedWriterMeetsLock ==
    \E req \in pending, body \in Bodies :
       /\ req.permissions = "edit"
       /\ MapHas(documentLocks, req.fileId)
       /\ documentLocks[req.fileId].lockId \in LockTokens
       /\ localDocuments[req.fileId].content # body
       /\ PutFileHandler(server, req, undefined, body).res.status = 409

\* C5: a PutFile with a valid token whose permission is not "edit" is
\* answered 403 in every lock state of the (stored) file: unlocked, locked
\* with the supplied lock header, locked with another; the document and
\* its version are unchanged.
C5_ViewTokenCannotPut ==
    \A req \in pending :
       \A requestLock \in AnyLockHeader, body \in Bodies :
          LET a == PutFileHandler(server, req, requestLock, body)
          IN (req.permissions # "edit"
              /\ MapHas(localDocuments, req.fileId)) =>
                /\ a.res.status = 403
                /\ a.localDocuments = localDocuments
                /\ a.documentLocks = documentLocks

\* A view PutFile arrives with the very lock token the file is locked with.
C5_ViewerHoldsTheLock ==
    \E req \in pending, body \in Bodies :
       /\ req.permissions = "view"
       /\ MapHas(documentLocks, req.fileId)
       /\ documentLocks[req.fileId].lockId \in LockTokens
       /\ PutFileHandler(server, req, documentLocks[req.fileId].lockId,
                         body).res.status = 403

\* A WOPI token with a good signature that has not expired at time t.
Unexpired(token, t) ==
    /\ token.form = "jwt" /\ token.alg = "HS256" /\ token.sig = jwtSecret
    /\ token.payload.type = "wopi_access"
    /\ epochSeconds(t) < token.payload.exp

\* C6: a valid WOPI token issued for file A, presented on any WOPI endpoint
\* (CheckFileInfo, GetFile, PutFile, the lock-family POST) whose path names
\* another file B, is answered 403, and no document and no lock changes.
C6_TokenBoundToItsFile ==
    \A f \in FileIds :
       \A token \in WopiTokens(now) :
          (Unexpired(token, now) /\ token.payload.fileId # f) =>
             LET info == CheckFileInfoHandler(server, f, token)
                 file == GetFileHandler(server, f, token)
                 put == PutFileMiddleware(server, f, token)
             IN /\ info.res.status = 403
                /\ After(server, info) = server
                /\ file.res.status = 403
                /\ file.res.content = <<>>
                /\ After(server, file) = server
                /\ put.res.status = 403
                /\ \A h \in Requests :
                      LET post == WopiPostHandler(server, f, token, h)
                      IN post.res.status = 403 /\ After(server, post) = server

\* The token of a stored, locked file is presented on the path of another
\* stored file.
C6_TokenOfAnotherStoredFile ==
    \E f \in DOMAIN localDocuments :
       \E token \in RequestTokens(f, now) :
          /\ Unexpired(token, now)
          /\ token.payload.fileId # f
          /\ MapHas(localDocuments, token.payload.fileId)
          /\ MapHas(documentLocks, token.payload.fileId)
          /\ GetFileHandler(server, f, token).res.status = 403

\* The status the order of precedence gives a request, 0 for "the operation
\* is evaluated".
Precedence(f, token) ==
    IF ~Unexpired(token, now) THEN 401
    ELSE IF token.payload.fileId # f THEN 403
    ELSE IF ~MapHas(localDocuments, f) THEN 404
    ELSE 0

\* The answers of the checks that come before an operation.
EarlyErrors ==
    {"Access token required", "Invalid or expired token",
     "Token not valid for this file", "File not found"}

\* C7: every WOPI endpoint answers 401 when the access token is missing,
\* malformed, badly signed, expired or of the wrong kind; otherwise 403 when
\* the token's fileId is not the path's; otherwise 404 when the path names
\* no stored document; and only otherwise evaluates the operation.
C7_PrecedenceOfErrors ==
    /\ \A f \in FileIds :
          \A token \in AnyToken(now) :
             LET e == Precedence(f, token)
                 info == CheckFileInfoHandler(server, f, token).res
                 file == GetFileHandler(server, f, token).res
                 put == PutFileMiddleware(server, f, token)
             IN /\ IF e # 0 THEN info.status = e /\ file.status = e
                   ELSE info.status = 200 /\ file.status = 200
                /\ \A h \in Requests :
                      LET post == WopiPostHandler(server, f, token, h).res
                      IN IF e # 0 THEN post.status = e
                         ELSE post.error \notin EarlyErrors
                /\ IF e \in {401, 403} THEN put.res.status = e
                   ELSE /\ put.res.status = 0
                        /\ \A lock \in AnyLockHeader, body \in Bodies :
                              LET res == PutFileHandler(server, put.req, lock,
                                                        body).res
                              IN IF e = 404 THEN res.status = 404
                                 ELSE res.error \notin EarlyErrors
    /\ \A req \in pending :
          \A lock \in AnyLockHeader, body \in Bodies :
             LET res == PutFileHandler(server, req, lock, body).res
             IN IF ~MapHas(localDocuments, req.fileId) THEN res.status = 404
                ELSE res.error \notin EarlyErrors

\* A file that is not stored: no token gets 401, the token of another file
\* 403, and its own valid token 404.
C7_AllThreeRefusals ==
    \E f \in FileIds \ DOMAIN localDocuments :
       \E other \in RequestTokens(f, now), own \in RequestTokens(f, now) :
          /\ Precedence(f, NoToken) = 401
          /\ Precedence(f, other) = 403
          /\ Precedence(f, own) = 404
          /\ CheckFileInfoHandler(server, f, NoToken).res.status = 401
          /\ CheckFileInfoHandler(server, f, other).res.status = 403
          /\ CheckFileInfoHandler(server, f, own).res.status = 404
          /\ now > 0

\* C10: LOCK is idempotent on a matching token: once LOCK(t) has succeeded
\* on a file the file holds t, and every further LOCK(t), by any caller, is
\* answered 200 with X-WOPI-Lock = t and leaves the held token t.
C10_RelockIdempotent ==
    \A f \in DOMAIN localDocuments :
       \A tokenA \in ValidTokens(f), tokenB \in ValidTokens(f),
          t \in LockTokens :
          LET first == WopiPostHandler(server, f, tokenA, LockRequest(t))
              second == WopiPostHandler(After(server, first), f, tokenB,
                                        LockRequest(t))
              third == WopiPostHandler(After(server, second), f, tokenA,
                                       LockRequest(t))
          IN first.res.status = 200 =>
                /\ first.res.lock = t
                /\ first.documentLocks[f].lockId = t
                /\ second.res.status = 200
                /\ second.res.lock = t
                /\ second.documentLocks[f].lockId = t
                /\ third.res.status = 200
                /\ third.res.lock = t
                /\ third.documentLocks[f].lockId = t

\* A file locked with t at an earlier clock reading is locked with t again.
C10_RelockLater ==
    \E f \in DOMAIN documentLocks :
       \E token \in RequestTokens(f, now) :
          LET t == documentLocks[f].lockId
              a == WopiPostHandler(server, f, token, LockRequest(t))
          IN /\ ValidFor(f, token)
             /\ t \in LockTokens
             /\ documentLocks[f].timestamp < now
             /\ a.res.status = 200
             /\ a.documentLocks[f].lockId = t

\* The PutFile requests past the middleware with edit permission.
EditRequests == {req \in pending : req.permissions = "edit"}

\* C11: a PutFile with a valid edit token on a stored file that holds no
\* lock is answered 200, with or without an X-WOPI-Lock header and whatever
\* happened to the file before, and the stored content is then the request
\* body.
C11_UnlockedPutFileSucceeds ==
    \A req \in EditRequests :
       \A requestLock \in AnyLockHeader, body \in Bodies :
          LET f == req.fileId
              a == PutFileHandler(server, req, requestLock, body)
          IN (MapHas(localDocuments, f) /\ ~MapHas(documentLocks, f)) =>
                /\ a.res.status = 200
                /\ a.localDocuments[f].content = body
                /\ a.localDocuments[f].size = Len(body)
                /\ DOMAIN a.localDocuments = DOMAIN localDocuments

\* An edit PutFile carrying a lock header reaches an unlocked file, at a
\* later clock reading than startup, with bytes the file does not hold.
C11_WriterWithStaleLockHeader ==
    \E req \in EditRequests, body \in Bodies :
       /\ MapHas(localDocuments, req.fileId)
       /\ ~MapHas(documentLocks, req.fileId)
       /\ now > 0
       /\ localDocuments[req.fileId].content # body
       /\ PutFileHandler(server, req, "L1", body).res.status = 200

\* C12: every successful PutFile strictly advances the document's version:
\* the lastModified stored, and returned as X-WOPI-ItemVersion, is strictly
\* greater than the one before, also for two PutFiles that complete within
\* the same clock reading.  Stated on two PutFiles handled one after the
\* other: the second leaves a version strictly greater than the first.
C12_PutFileAdvancesVersion ==
    \A req1 \in pending, req2 \in pending :
       \A lock1 \in AnyLockHeader, lock2 \in AnyLockHeader, body \in Bodies :
          LET f == req1.fileId
              first == PutFileHandler(server, req1, lock1, body)
              second == PutFileHandler(After(server, first), req2, lock2,
                                       body)
          IN (/\ req2.fileId = f
              /\ first.res.status = 200
              /\ second.res.status = 200) =>
                /\ second.res.version = second.localDocuments[f].lastModified
                /\ isoLess(first.localDocuments[f].lastModified,
                           second.localDocuments[f].lastModified)

\* A second PutFile completes on the sample document in the clock reading
\* of the first and leaves the version as the first set it.
C12_SecondPutSameReading ==
    \E req \in EditRequests, body \in Bodies :
       LET f == req.fileId
           a == PutFileHandler(server, req, undefined, body)
       IN /\ f \in SampleIds
          /\ localDocuments[f].content \in Bodies
          /\ localDocuments[f].lastModified = toISOString(now)
          /\ a.res.status = 200
          /\ a.res.version = localDocuments[f].lastModified

\* The tokens of ValidTokens(f) that carry the named permission.
ValidTokensWith(f, permission) ==
    {token \in ValidTokens(f) : token.payload.permissions = permission}

\* C13: in every CheckFileInfo response UserCanWrite is true exactly when
\* the token's permission is "edit", ReadOnly is the negation of
\* UserCanWrite, and SupportsUpdate, SupportsLocks, SupportsGetLock and
\* SupportsRename are the same for edit and non-edit tokens.
C13_CheckFileInfoFlags ==
    \A f \in DOMAIN localDocuments :
       \A token \in ValidTokens(f) :
          LET info == CheckFileInfoHandler(server, f, token).res IN
          /\ info.status = 200
          /\ info.json.UserCanWrite = (token.payload.permissions = "edit")
          /\ info.json.ReadOnly = ~info.json.UserCanWrite
          /\ \A other \in ValidTokens(f) :
                LET j == CheckFileInfoHandler(server, f, other).res.json IN
                (/\ token.payload.permissions = "edit"
                 /\ other.payload.permissions # "edit") =>
                   /\ j.SupportsUpdate = info.json.SupportsUpdate
                   /\ j.SupportsLocks = info.json.SupportsLocks
                   /\ j.SupportsGetLock = info.json.SupportsGetLock
                   /\ j.SupportsRename = info.json.SupportsRename

\* A view token and an edit token are presented for a document written
\* since startup.
C13_ViewerAndEditor ==
    \E f \in DOMAIN localDocuments :
       \E view \in ValidTokensWith(f, "view"),
          edit \in ValidTokensWith(f, "edit") :
          /\ localDocuments[f].content # SampleContent
          /\ CheckFileInfoHandler(server, f, view).res.json.ReadOnly
          /\ CheckFileInfoHandler(server, f, edit).res.json.UserCanWrite

\* The answers of the end-to-end scenario on f with an edit token: LOCK(L1),
\* PutFile with X-WOPI-Lock L1 and the body, GetFile, UNLOCK(L1), GET_LOCK,
\* each on the state the one before left.
Scenario(f, token, body) ==
    LET lock == WopiPostHandler(server, f, token, LockRequest("L1"))
        s1 == After(server, lock)
        begin == PutFileMiddleware(s1, f, token)
        put == PutFileHandler(s1, begin.req, "L1", body)
        s2 == After(s1, put)
        get == GetFileHandler(s2, f, token)
        unlock == WopiPostHandler(s2, f, token,
                     Headers("UNLOCK", "L1", undefined, undefined))
        s3 == After(s2, unlock)
        getLock == WopiPostHandler(s3, f, token,
                      Headers("GET_LOCK", undefined, undefined, undefined))
    IN [lock |-> lock.res, begin |-> begin.res, put |-> put.res,
        get |-> get.res, unlock |-> unlock.res, getLock |-> getLock.res]

\* C14: from an unlocked stored file f1 and an edit token for it, LOCK(L1),
\* PutFile with X-WOPI-Lock L1 and new bytes, GetFile, UNLOCK(L1), GET_LOCK
\* are each answered 200; GetFile returns the new bytes with an
\* X-WOPI-ItemVersion that differs from the version before the PutFile, and
\* the final GET_LOCK returns an empty X-WOPI-Lock.  Stated for the scenarios
\* run at a later clock reading than the one the server started in.
C14_EndToEndScenario ==
    \A f \in DOMAIN localDocuments \ DOMAIN documentLocks :
       \A token \in ValidTokensWith(f, "edit"), body \in Bodies :
          LET r == Scenario(f, token, body)
          IN now > 0 =>
                /\ r.lock.status = 200
                /\ r.begin.status = 0
                /\ r.put.status = 200
                /\ r.get.status = 200
                /\ r.get.content = body
                /\ r.get.version # localDocuments[f].lastModified
                /\ r.unlock.status = 200
                /\ r.getLock.status = 200
                /\ r.getLock.lock = ""

\* The scenario run in the clock reading, later than startup, in which the
\* file was last changed: every step is answered as the claim says, but
\* GetFile returns the version the file had before the PutFile.
C14_ScenarioSameReading ==
    \E f \in DOMAIN localDocuments \ DOMAIN documentLocks :
       \E token \in ValidTokensWith(f, "edit"), body \in Bodies :
          LET r == Scenario(f, token, body) IN
          /\ now > 0
          /\ localDocuments[f].content # body
          /\ r.lock.status = 200 /\ r.put.status = 200
          /\ r.get.status = 200 /\ r.get.content = body
          /\ r.unlock.status = 200 /\ r.getLock.lock = ""
          /\ r.get.version = localDocuments[f].lastModified

\* The lock token the file holds in the map, the empty string for none.
HeldToken(locks, f) == IF MapHas(locks, f) THEN locks[f].lockId ELSE ""

\* The file holds no lock or a lock whose token is a lock-token string.
TokenOrUnlocked(f) == HeldToken(documentLocks, f) \in LockTokens \cup {""}

\* C15: UNLOCK(t) on a file locked with exactly t removes the lock and
\* returns 200; on a file that is unlocked or locked with another token it
\* returns 409 carrying the held token (empty if none) and leaves the lock
\* state unchanged.
C15_UnlockOnlyWithHeldToken ==
    \A f \in DOMAIN localDocuments :
       \A token \in ValidTokens(f), t \in LockTokens :
          LET a == WopiPostHandler(server, f, token,
                      Headers("UNLOCK", t, undefined, undefined))
          IN TokenOrUnlocked(f) =>
                IF HeldToken(documentLocks, f) = t
                THEN /\ a.res.status = 200
                     /\ a.documentLocks = MapDelete(documentLocks, f)
                ELSE /\ a.res.status = 409
                     /\ a.res.lock = HeldToken(documentLocks, f)
                     /\ a.documentLocks = documentLocks

\* A file locked by one user: another user's UNLOCK with another token is
\* refused, and with the held token releases the lock.
C15_UnlockByAnotherUser ==
    \E f \in DOMAIN documentLocks :
       \E token \in RequestTokens(f, now), t \in LockTokens :
          LET current == documentLocks[f].lockId IN
          /\ ValidFor(f, token)
          /\ current \in LockTokens \ {t}
          /\ documentLocks[f].userId # token.payload.userId
          /\ WopiPostHandler(server, f, token,
                Headers("UNLOCK", t, undefined, undefined)).res.status = 409
          /\ ~MapHas(WopiPostHandler(server, f, token,
                        Headers("UNLOCK", current, undefined, undefined))
                     .documentLocks, f)

\* C16: REFRESH_LOCK(t) returns 200 only when the file is locked with
\* exactly t, and then leaves the held token and the holder as they were;
\* on an unlocked file or one locked with another token it returns 409
\* carrying the held token (empty if none), creates no lock and changes
\* nothing.
C16_RefreshOnlyWithHeldToken ==
    \A f \in DOMAIN localDocuments :
       \A token \in ValidTokens(f), t \in LockTokens :
          LET a == WopiPostHandler(server, f, token,
                      Headers("REFRESH_LOCK", t, undefined, undefined))
          IN TokenOrUnlocked(f) =>
                IF HeldToken(documentLocks, f) = t
                THEN /\ a.res.status = 200
                     /\ DOMAIN a.documentLocks = DOMAIN documentLocks
                     /\ a.documentLocks[f].lockId = t
                     /\ a.documentLocks[f].userId = documentLocks[f].userId
                     /\ a.localDocuments = localDocuments
                ELSE /\ a.res.status = 409
                     /\ a.res.lock = HeldToken(documentLocks, f)
                     /\ After(server, a) = server

\* A lock taken at an earlier clock reading is refreshed by another user.
C16_RefreshByAnotherUserLater ==
    \E f \in DOMAIN documentLocks :
       \E token \in RequestTokens(f, now) :
          LET current == documentLocks[f].lockId
              a == WopiPostHandler(server, f, token,
                      Headers("REFRESH_LOCK", current, undefined,
                              undefined))
          IN /\ ValidFor(f, token)
             /\ current \in LockTokens
             /\ documentLocks[f].userId # token.payload.userId
             /\ documentLocks[f].timestamp < now
             /\ a.res.status = 200
             /\ a.documentLocks[f].timestamp = now

\* C17: GET_LOCK with a valid token on a stored file always returns 200,
\* changes no document and no lock, and its X-WOPI-Lock header is the held
\* lock token, or the empty string when the file is unlocked.
C17_GetLockPureRead ==
    \A f \in DOMAIN localDocuments :
       \A token \in ValidTokens(f), t \in AnyLockHeader :
          LET a == WopiPostHandler(server, f, token,
                      Headers("GET_LOCK", t, undefined, undefined))
          IN /\ a.res.status = 200
             /\ After(server, a) = server
             /\ TokenOrUnlocked(f) =>
                   a.res.lock = HeldToken(documentLocks, f)

\* GET_LOCK by a view token of one user on a file another user has locked.
C17_ViewerReadsLock ==
    \E f \in DOMAIN documentLocks :
       \E token \in RequestTokens(f, now) :
          /\ ValidFor(f, token)
          /\ token.payload.permissions = "view"
          /\ documentLocks[f].lockId \in LockTokens
          /\ documentLocks[f].userId # token.payload.userId
          /\ WopiPostHandler(server, f, token,
                Headers("GET_LOCK", undefined, undefined, undefined))
                .res.lock = documentLocks[f].lockId

\* The lock-family requests that carry lock tokens: LOCK and
\* UNLOCK_AND_RELOCK with a token to set, the others with any lock headers.
LockRequests ==
    {LockRequest(t) : t \in LockTokens}
    \cup {Headers(o, t, undefined, undefined) :
             o \in {"GET_LOCK", "REFRESH_LOCK", "UNLOCK"},
             t \in AnyLockHeader}
    \cup {Headers("UNLOCK_AND_RELOCK", t2, t1, undefined) :
             t1 \in AnyLockHeader, t2 \in LockTokens}

C19_PutRelativeNotImplemented ==
    \A f \in DOMAIN localDocuments :
       \A token \in ValidTokens(f), t \in AnyLockHeader :
          LET a == WopiPostHandler(server, f, token,
                      Headers("PUT_RELATIVE", t, undefined, undefined))
          IN /\ a.res.status = 501
             /\ After(server, a) = server

\* PUT_RELATIVE with an edit token on a locked file while another file is
\* not stored yet.
C19_PutRelativeOnLockedFile ==
    \E f \in DOMAIN documentLocks :
       \E token \in RequestTokens(f, now) :
          /\ ValidFor(f, token)
          /\ token.payload.permissions = "edit"
          /\ DOMAIN localDocuments # FileIds
          /\ WopiPostHandler(server, f, token,
                Headers("PUT_RELATIVE", undefined, undefined, undefined))
                .res.status = 501

\* C20: every RENAME_FILE answered 200 changes the document's lastModified:
\* the value after the rename differs from the one before, also when no
\* requested-name header is supplied and when the rename happens in the
\* clock reading of the previous change.
C20_RenameChangesVersion ==
    \A f \in DOMAIN localDocuments :
       \A token \in ValidTokens(f),
          newName \in {undefined, "Q3%20plan.docx"} :
          LET a == WopiPostHandler(server, f, token,
                      Headers("RENAME_FILE", undefined, undefined, newName))
          IN a.res.status = 200 =>
                a.localDocuments[f].lastModified
                   # localDocuments[f].lastModified

\* A RENAME_FILE without a requested name, at a later clock reading than
\* the last change of the file, is answered 200 with the name the file has
\* and leaves lastModified as it was.
C20_RenameWithoutName ==
    \E f \in DOMAIN localDocuments :
       \E token \in RequestTokens(f, now) :
          LET a == WopiPostHandler(server, f, token,
                      Headers("RENAME_FILE", undefined, undefined, undefined))
          IN /\ ValidFor(f, token)
             /\ isoLess(localDocuments[f].lastModified, toISOString(now))
             /\ a.res.status = 200
             /\ a.res.json.Name = localDocuments[f].name
             /\ a.localDocuments[f].lastModified
                   = localDocuments[f].lastModified

\* C21: a RENAME_FILE presented with a token for the file whose permission
\* is not "edit" is answered 403 and leaves the document's name and
\* lastModified unchanged.
C21_ReadOnlyTokenCannotRename ==
    \A f \in DOMAIN localDocuments :
       \A token \in ValidTokens(f), newName \in RequestedNames(f) :
          LET a == WopiPostHandler(server, f, token,
                      Headers("RENAME_FILE", undefined, undefined, newName))
          IN token.payload.permissions # "edit" =>
                /\ a.res.status = 403
                /\ a.localDocuments[f].name = localDocuments[f].name
                /\ a.localDocuments[f].lastModified
                      = localDocuments[f].lastModified

\* A view token renames the sample document at a later clock reading: the
\* request is answered 200 and the name and lastModified are new.
C21_ViewerRenames ==
    \E f \in DOMAIN localDocuments :
       \E token \in RequestTokens(f, now) :
          LET a == WopiPostHandler(server, f, token,
                      Headers("RENAME_FILE", undefined, undefined,
                              "Q3%20plan.docx"))
          IN /\ ValidFor(f, token)
             /\ token.payload.permissions = "view"
             /\ now > 0
             /\ a.res.status = 200
             /\ a.localDocuments[f].name = "Q3 plan.docx"
             /\ a.localDocuments[f].name # localDocuments[f].name
             /\ a.localDocuments[f].lastModified
                   # localDocuments[f].lastModified

\* A step of the server that is a PutFile on f answered 200.
SuccessfulPutFileOn(f) ==
    \E req \in pending, body \in Bodies :
       \E requestLock \in LockHeaders(req.fileId) \cup {undefined} :
          /\ req.fileId = f
          /\ PutFileHandler(server, req, requestLock, body).res.status = 200
          /\ PutFile(req, requestLock, body)

\* A step of the server that is a RENAME_FILE on f carrying a requested
\* name and answered 200.
SuccessfulRenameOf(f) ==
    \E token \in RequestTokens(f, now), newName \in RequestedNames(f) :
       /\ newName # undefined
       /\ WopiPostHandler(server, f, token,
             Headers("RENAME_FILE", undefined, undefined, newName))
             .res.status = 200
       /\ RenameFile(f, token, newName)

\* C22 as stated: a stored document stays stored, and its content and
\* metadata (name, size, lastModified, owner) change only in a step that is
\* a successful PutFile on that file.
C22_DocumentChangesOnlyByPutFile ==
    [][\A f \in DOMAIN localDocuments :
          /\ f \in DOMAIN localDocuments'
          /\ localDocuments'[f] # localDocuments[f] => SuccessfulPutFileOn(f)
      ]_vars

\* C22 amended: a stored document stays stored; its content and size change
\* only in a successful PutFile on that file, its name only in a successful
\* RENAME_FILE of that file, its lastModified only in one of the two, and
\* its identifier and owner never.
C22_DocumentChangesOnlyByPutFileOrRename ==
    [][\A f \in DOMAIN localDocuments :
          /\ f \in DOMAIN localDocuments'
          /\ LET before == localDocuments[f]
                 after == localDocuments'[f]
             IN /\ after.id = before.id
                /\ after.ownerId = before.ownerId
                /\ (after.content # before.content \/ after.size # before.size)
                      => SuccessfulPutFileOn(f)
                /\ after.name # before.name => SuccessfulRenameOf(f)
                /\ after.lastModified # before.lastModified
                      => SuccessfulPutFileOn(f) \/ SuccessfulRenameOf(f)
      ]_vars

\* The sample document has been renamed and then saved while a second
\* document is stored: its name and its content are no longer the initial
\* ones.
C22_RenamedAndSaved ==
    \E f \in SampleIds :
       /\ DOMAIN localDocuments = FileIds
       /\ localDocuments[f].name = "Q3 plan.docx"
       /\ localDocuments[f].content \in Bodies
       /\ isoLess(toISOString(0), localDocuments[f].lastModified)

\* A step of the server that is an UNLOCK on f carrying the held lock token
\* and answered 200.
SuccessfulUnlockOf(f) ==
    \E token \in RequestTokens(f, now), requestLock \in LockHeaders(f) :
       /\ requestLock = documentLocks[f].lockId
       /\ WopiPostHandler(server, f, token,
             Headers("UNLOCK", requestLock, undefined, undefined))
             .res.status = 200
       /\ Unlock(f, token, requestLock)

\* A step of the server that is an UNLOCK_AND_RELOCK on f carrying the held
\* lock token as the old lock and answered 200.
SuccessfulUnlockAndRelockOf(f) ==
    \E token \in RequestTokens(f, now), oldLock \in LockHeaders(f),
       requestLock \in LockHeaders(f) \cap LockTokens :
       /\ oldLock = documentLocks[f].lockId
       /\ WopiPostHandler(server, f, token,
             Headers("UNLOCK_AND_RELOCK", requestLock, oldLock, undefined))
             .res.status = 200
       /\ UnlockAndRelock(f, token, oldLock, requestLock)

\* C23: a file locked with token t stays locked with t through every step
\* of the server (the clock moving on, the expiry of tokens, requests of
\* every kind) other than a successful UNLOCK(t) or UNLOCK_AND_RELOCK(t, t')
\* on that file.
C23_LocksNeverExpire ==
    [][\A f \in DOMAIN documentLocks :
          (\/ f \notin DOMAIN documentLocks'
           \/ documentLocks'[f].lockId # documentLocks[f].lockId)
             => SuccessfulUnlockOf(f) \/ SuccessfulUnlockAndRelockOf(f)
      ]_vars

\* A lock taken at startup is still held one token lifetime later: the
\* token that acquired it has expired, and GET_LOCK with a fresh token
\* still reports the lock token.
C23_LockOutlivesItsToken ==
    \E f \in DOMAIN documentLocks :
       \E token \in ValidTokens(f) :
          LET lock == documentLocks[f]
              acquiring == generateWopiToken(f, lock.userId, "edit", 0, 0)
          IN /\ lock.timestamp = 0
             /\ lock.lockId \in LockTokens
             /\ now >= tokenTtlSeconds * 1000
             /\ ~ValidFor(f, acquiring)
             /\ WopiPostHandler(server, f, token,
                   Headers("GET_LOCK", undefined, undefined, undefined))
                   .res.lock = lock.lockId

\* A WOPI request: the route, the headers the route reads and the body.
Calls ==
    {[route |-> "Post", headers |-> h, body |-> <<>>] : h \in Requests}
    \cup {[route |-> r, body |-> <<>>,
           headers |-> Headers(undefined, undefined, undefined, undefined)] :
             r \in {"CheckFileInfo", "GetFile"}}
    \cup {[route |-> "PutFile", body |-> b,
           headers |-> Headers(undefined, t, undefined, undefined)] :
             t \in AnyLockHeader, b \in Bodies}

\* What the server in state s answers to a call on the path of f, and the
\* maps it leaves; a PutFile whose body has arrived.
Serve(s, f, token, call) ==
    CASE call.route = "CheckFileInfo" -> CheckFileInfoHandler(s, f, token)
      [] call.route = "GetFile" -> GetFileHandler(s, f, token)
      [] call.route = "PutFile" ->
            LET mw == PutFileMiddleware(s, f, token) IN
            IF mw.res.status # 0 THEN Answer(s, mw.res)
            ELSE PutFileHandler(s, mw.req, call.headers.lock, call.body)
      [] OTHER -> WopiPostHandler(s, f, token, call.headers)

(***************************************************************************)
(* The server serving whole requests one at a time: every WOPI request is  *)
(* answered in one step, a PutFile with its body already read.             *)
(***************************************************************************)
\* The calls the requests of a behaviour make on the path of f.
CallsOn(f) ==
    {call \in Calls :
        /\ call.headers.lock \in LockHeaders(f) \cup {undefined}
        /\ call.headers.oldLock \in LockHeaders(f) \cup {undefined}
        /\ call.headers.requestedName \in RequestedNames(f)}

ServeCall(f, token, call) ==
    /\ Apply(Serve(server, f, token, call))
    /\ UNCHANGED <<now, pending, held, verdict, discovery>>

ServeNext ==
    \/ Tick
    \/ \E token \in {NoToken} \cup AppTokens(now), content \in Bodies :
          Upload(token, content)
    \/ \E f \in FileIds :
          \E token \in RequestTokens(f, now), call \in CallsOn(f) :
             ServeCall(f, token, call)

ServeSpec == Init /\ [][ServeNext]_vars

\* The entries of a map for the files other than f, and the entry for f.
Outside(m, f) == [g \in DOMAIN m \ {f} |-> m[g]]
Inside(m, f) == [g \in DOMAIN m \cap {f} |-> m[g]]

\* The server with the document and the lock of g in another condition: a
\* stored document saved again and its lock taken or released, an upload
\* not made yet, a missing document uploaded and locked.
Elsewhere(s, g) ==
    LET relocked ==
            IF MapHas(s.documentLocks, g) THEN MapDelete(s.documentLocks, g)
            ELSE MapSet(s.documentLocks, g, newLock("L2", "user-2", s.now))
    IN
    IF MapHas(s.localDocuments, g)
    THEN {[s EXCEPT
              !.localDocuments =
                 MapSet(s.localDocuments, g,
                        [s.localDocuments[g] EXCEPT
                            !.content = <<2>>, !.size = 1,
                            !.name = "elsewhere.docx",
                            !.lastModified = toISOString(s.now + 1)]),
              !.documentLocks = relocked]}
         \cup (IF g \in SampleIds THEN {}
               ELSE {[s EXCEPT
                         !.localDocuments = MapDelete(s.localDocuments, g),
                         !.documentLocks = MapDelete(s.documentLocks, g)]})
    ELSE {[s EXCEPT
              !.localDocuments =
                 MapSet(s.localDocuments, g,
                        [sampleDocument(g) EXCEPT !.name = UploadName]),
              !.documentLocks = relocked]}

\* C24: a WOPI request addressed to file f, whatever its outcome, leaves
\* the document and the lock of every other file as they were, and its
\* response and what it leaves of f are the same whatever the document and
\* lock state of another file g.
C24_FilesIndependent ==
    \A f \in FileIds :
       \A token \in RequestTokens(f, now), call \in Calls :
          LET a == Serve(server, f, token, call) IN
          /\ Outside(a.localDocuments, f) = Outside(localDocuments, f)
          /\ Outside(a.documentLocks, f) = Outside(documentLocks, f)
          /\ \A g \in FileIds \ {f} :
                \A s \in Elsewhere(server, g) :
                   LET b == Serve(s, f, token, call) IN
                   /\ b.res = a.res
                   /\ Inside(b.localDocuments, f) = Inside(a.localDocuments, f)
                   /\ Inside(b.documentLocks, f) = Inside(a.documentLocks, f)
                   /\ Outside(b.localDocuments, f)
                         = Outside(s.localDocuments, f)
                   /\ Outside(b.documentLocks, f) = Outside(s.documentLocks, f)

\* Both documents are stored and locked with different lock tokens, and a
\* LOCK carrying the other file's lock token is refused on the sample
\* document while the other file keeps its lock.
C24_TwoLockedFiles ==
    \E f \in SampleIds, g \in FileIds \ SampleIds :
       \E token \in RequestTokens(f, now) :
          LET a == Serve(server, f, token,
                      [route |-> "Post", body |-> <<>>,
                       headers |-> LockRequest("L1")])
          IN /\ f \in DOMAIN documentLocks /\ g \in DOMAIN documentLocks
             /\ documentLocks[f].lockId = "L2"
             /\ documentLocks[g].lockId = "L1"
             /\ a.res.status = 409
             /\ a.documentLocks[g] = documentLocks[g]

\* The bodies the PutFile requests of the claims carry.
PutBodies == Bodies \cup {<<2>>}

\* A PutFile call carrying lock header t and body b.
PutCall(t, b) ==
    [route |-> "PutFile", body |-> b,
     headers |-> Headers(undefined, t, undefined, undefined)]

\* The X-WOPI-Lock header a writer that knows the lock sends.
KnownLock(s, f) ==
    IF MapHas(s.documentLocks, f) THEN s.documentLocks[f].lockId
    ELSE undefined

\* In the state reached, GetFile on a stored file returns the stored bytes
\* with X-WOPI-ItemVersion = lastModified, which CheckFileInfo reports as
\* Version and LastModifiedTime; and after one or two successful PutFiles
\* it returns the body of the last one.
GetFileReturnsLastPut ==
    \A f \in DOMAIN localDocuments :
       \A token \in ValidTokens(f) :
          LET get == GetFileHandler(server, f, token)
              info == CheckFileInfoHandler(server, f, token)
          IN
          /\ get.res.status = 200 /\ info.res.status = 200
          /\ get.res.content = localDocuments[f].content
          /\ get.res.version = localDocuments[f].lastModified
          /\ info.res.json.Version = get.res.version
          /\ info.res.json.LastModifiedTime = get.res.version
          /\ \A b1 \in PutBodies, b2 \in PutBodies :
                LET first == Serve(server, f, token,
                                   PutCall(KnownLock(server, f), b1))
                    s1 == After(server, first)
                    second == Serve(s1, f, token,
                                    PutCall(KnownLock(server, f), b2))
                    s2 == After(s1, second)
                IN
                /\ first.res.status = 200 =>
                      GetFileHandler(s1, f, token).res.content = b1
                /\ (first.res.status = 200 /\ second.res.status = 200) =>
                      /\ GetFileHandler(s2, f, token).res.content = b2
                      /\ GetFileHandler(s2, f, token).res.version
                            = CheckFileInfoHandler(s2, f, token)
                                 .res.json.Version
                /\ (first.res.status = 200 /\ second.res.status # 200) =>
                      GetFileHandler(s2, f, token).res.content = b1

\* A step that is an upload storing f with the given content.
UploadOf(f, content) ==
    /\ f \notin DOMAIN localDocuments
    /\ \E token \in {NoToken} \cup AppTokens(now) : Upload(token, content)
    /\ f \in DOMAIN localDocuments'

\* C26: GetFile on a stored file returns the bytes of the most recent
\* successful PutFile on it, or the initial bytes (of the sample, of the
\* upload) if there was none, and its X-WOPI-ItemVersion is the document's
\* lastModified, the value CheckFileInfo reports as Version and
\* LastModifiedTime in the same state.
C26_GetFileReturnsLastPut ==
    /\ \A f \in SampleIds : localDocuments[f].content = SampleContent
    /\ []GetFileReturnsLastPut
    /\ [][\A f \in DOMAIN localDocuments' :
             IF f \in DOMAIN localDocuments
             THEN localDocuments'[f].content # localDocuments[f].content
                     => SuccessfulPutFileOn(f)
             ELSE UploadOf(f, localDocuments'[f].content)
         ]_vars

\* The sample document has been saved by a viewer's co-editor: an edit
\* token's GetFile returns the saved body and the version of the save,
\* later than the startup version, which a view token's CheckFileInfo
\* reports too.
C26_SavedThenRead ==
    \E f \in SampleIds :
       \E reader \in RequestTokens(f, now), viewer \in RequestTokens(f, now) :
          /\ ValidFor(f, reader) /\ ValidFor(f, viewer)
          /\ viewer.payload.permissions = "view"
          /\ localDocuments[f].content \in Bodies
          /\ isoLess(toISOString(0), localDocuments[f].lastModified)
          /\ GetFileHandler(server, f, reader).res.content
                = localDocuments[f].content
          /\ CheckFileInfoHandler(server, f, viewer).res.json.Version
                = GetFileHandler(server, f, reader).res.version

\* A RENAME_FILE whose requested name decodeURIComponent rejects.
MalformedRename ==
    [route |-> "Post", body |-> <<>>,
     headers |-> Headers("RENAME_FILE", undefined, undefined, "100%.docx")]

\* C27: a WOPI request answered with a status other than 200 (401, 403,
\* 404, 409, 400 for an unknown X-WOPI-Override, 501, and the 500 of a
\* handler that throws) leaves every document and every lock exactly as
\* they were.
C27_FailedRequestChangesNothing ==
    \A f \in FileIds :
       \A token \in AnyToken(now), call \in Calls \cup {MalformedRename} :
          LET a == Serve(server, f, token, call) IN
          a.res.status # 200 =>
             /\ a.localDocuments = localDocuments
             /\ a.documentLocks = documentLocks

\* On a locked, renamed sample document at a later clock reading: a PutFile
\* with the wrong lock token is refused 409, a LOCK with another token 409,
\* a PUT_RELATIVE 501, an unknown operation 400, and a token of the other
\* stored file 403.
C27_RefusalsOnLockedFile ==
    \E f \in DOMAIN documentLocks, g \in DOMAIN localDocuments :
       \E token \in RequestTokens(f, now), other \in RequestTokens(f, now) :
          LET post(h) == Serve(server, f, token,
                               [route |-> "Post", body |-> <<>>,
                                headers |-> h])
          IN /\ f # g /\ now > 0
             /\ documentLocks[f].lockId = "L1"
             /\ localDocuments[f].name = "Q3 plan.docx"
             /\ ValidFor(f, token) /\ token.payload.permissions = "edit"
             /\ Serve(server, f, token, PutCall("L2", <<2>>)).res.status = 409
             /\ post(LockRequest("L2")).res.status = 409
             /\ post(Headers("PUT_RELATIVE", undefined, undefined, undefined))
                   .res.status = 501
             /\ post(Headers("COBALT", undefined, undefined, undefined))
                   .res.status = 400
             /\ Serve(server, f, token, MalformedRename).res.status = 500
             /\ Serve(server, f, other, PutCall("L1", <<2>>)).res.status = 403

\* C28: every lock belongs to a stored document: the identifiers with an
\* entry in documentLocks are identifiers of localDocuments, and a
\* lock-family request on a file that is not stored is answered 404 (or
\* refused by the middleware) and reads and writes no lock.
C28_LocksBelongToDocuments ==
    /\ DOMAIN documentLocks \subseteq DOMAIN localDocuments
    /\ \A f \in FileIds \ DOMAIN localDocuments :
          \A token \in WopiTokensFor(f, now), h \in LockRequests :
             LET a == WopiPostHandler(server, f, token, h) IN
             /\ a.res.status \in {401, 404}
             /\ ValidFor(f, token) => a.res.status = 404
             /\ a.res.lock = undefined
             /\ a.documentLocks = documentLocks

\* Before the upload, with the sample document locked: a LOCK with a valid
\* token for the identifier the upload will get is answered 404 and no lock
\* is stored for it.
C28_LockBeforeUpload ==
    \E f \in FileIds \ DOMAIN localDocuments :
       \E token \in RequestTokens(f, now) :
          LET a == WopiPostHandler(server, f, token, LockRequest("L1")) IN
          /\ DOMAIN documentLocks # {}
          /\ ValidFor(f, token)
          /\ a.res.status = 404
          /\ f \notin DOMAIN a.documentLocks

\* The token issued now for the demo user with edit permission.
ReferenceToken(f) ==
    generateWopiToken(f, "demo-user-001", "edit", now, now)

\* The LOCK, REFRESH_LOCK, UNLOCK and UNLOCK_AND_RELOCK requests.
LockMutations == {h \in LockRequests : h.override # "GET_LOCK"}

\* C29: the status of a LOCK, REFRESH_LOCK, UNLOCK or UNLOCK_AND_RELOCK,
\* its X-WOPI-Lock answer and the lock token it leaves are the same for
\* every valid token of the file, whatever its user and its permission
\* (view or edit); and the status of a PutFile and the bytes it leaves are
\* the same for every valid edit token, whatever its user.
C29_LockOutcomeIgnoresCaller ==
    \A f \in DOMAIN localDocuments :
       \A token \in ValidTokens(f) :
          /\ ValidFor(f, ReferenceToken(f))
          /\ \A h \in LockMutations :
                LET a == WopiPostHandler(server, f, token, h)
                    r == WopiPostHandler(server, f, ReferenceToken(f), h)
                IN /\ a.res.status = r.res.status
                   /\ a.res.lock = r.res.lock
                   /\ HeldToken(a.documentLocks, f)
                         = HeldToken(r.documentLocks, f)
          /\ token.payload.permissions = "edit" =>
                \A t \in AnyLockHeader, b \in PutBodies :
                   LET a == Serve(server, f, token, PutCall(t, b))
                       r == Serve(server, f, ReferenceToken(f), PutCall(t, b))
                   IN /\ a.res.status = r.res.status
                      /\ a.res.lock = r.res.lock
                      /\ a.localDocuments = r.localDocuments
                      /\ a.documentLocks = r.documentLocks

\* The sample document is locked by the demo user: another user's view
\* token re-locks and releases it with the same lock token, and the other
\* user's edit token writes under it; once released, the view token
\* acquires the lock.
C29_AnotherCallerUsesTheLock ==
    \E f \in DOMAIN documentLocks :
       \E viewer \in RequestTokens(f, now), editor \in RequestTokens(f, now) :
          LET t == documentLocks[f].lockId
              post(token, o) ==
                  WopiPostHandler(server, f, token,
                                  Headers(o, t, undefined, undefined))
              released == After(server, post(viewer, "UNLOCK"))
          IN /\ documentLocks[f].userId = "demo-user-001"
             /\ t \in LockTokens
             /\ ValidFor(f, viewer) /\ ValidFor(f, editor)
             /\ viewer.payload.userId = "user-2"
             /\ viewer.payload.permissions = "view"
             /\ editor.payload.userId = "user-2"
             /\ editor.payload.permissions = "edit"
             /\ post(viewer, "LOCK").res.status = 200
             /\ post(viewer, "UNLOCK").res.status = 200
             /\ f \notin DOMAIN released.documentLocks
             /\ Serve(server, f, editor, PutCall(t, <<2>>)).res.status = 200
             /\ WopiPostHandler(released, f, viewer, LockRequest("L2"))
                   .documentLocks[f].userId = "user-2"

\* The calls that change locks or only read: every call but PutFile and
\* RENAME_FILE, PUT_RELATIVE and the unknown operation.
LockAndReadCalls ==
    {call \in Calls :
        \/ call.route \in {"CheckFileInfo", "GetFile"}
        \/ /\ call.route = "Post"
           /\ call.headers.override \in
                 {"LOCK", "REFRESH_LOCK", "UNLOCK", "UNLOCK_AND_RELOCK",
                  "GET_LOCK"}}

\* The PutFile and RENAME_FILE calls.
DocumentCalls ==
    {call \in Calls \cup {PutCall(t, b) : t \in AnyLockHeader,
                                          b \in PutBodies} :
        \/ call.route = "PutFile"
        \/ /\ call.route = "Post" /\ call.headers.override = "RENAME_FILE"}

\* C30: PutFile and RENAME_FILE never change a lock, and RENAME_FILE is
\* answered 200 whatever lock is held; LOCK, REFRESH_LOCK, UNLOCK,
\* UNLOCK_AND_RELOCK, GET_LOCK, CheckFileInfo and GetFile never change a
\* document; a LOCK or REFRESH_LOCK carrying the held token keeps the
\* recorded holder, and a successful UNLOCK_AND_RELOCK records the caller.
C30_DocumentAndLockMutationsDisjoint ==
    \A f \in DOMAIN localDocuments :
       \A token \in ValidTokens(f) :
          /\ \A call \in DocumentCalls :
                LET a == Serve(server, f, token, call) IN
                /\ a.documentLocks = documentLocks
                /\ call.route = "Post" => a.res.status = 200
          /\ \A call \in LockAndReadCalls :
                Serve(server, f, token, call).localDocuments = localDocuments
          /\ f \in DOMAIN documentLocks =>
                /\ \A o \in {"LOCK", "REFRESH_LOCK"} :
                      LET a == WopiPostHandler(server, f, token,
                                  Headers(o, documentLocks[f].lockId,
                                          undefined, undefined))
                      IN /\ a.res.status = 200
                         /\ a.documentLocks[f].userId
                               = documentLocks[f].userId
                /\ \A t \in LockTokens :
                      LET a == WopiPostHandler(server, f, token,
                                  Headers("UNLOCK_AND_RELOCK", t,
                                          documentLocks[f].lockId, undefined))
                      IN /\ a.res.status = 200
                         /\ a.documentLocks[f].userId = token.payload.userId
                         /\ a.documentLocks[f].lockId = t

\* The sample document is locked by the demo user with a lock token:
\* user-2 renames it without the lock token and the lock is as before,
\* user-2 re-locks it and the demo user stays the holder, and user-2's
\* UNLOCK_AND_RELOCK makes user-2 the holder.
C30_RenameUnderForeignLock ==
    \E f \in DOMAIN documentLocks :
       \E token \in RequestTokens(f, now) :
          LET t == documentLocks[f].lockId
              renamed == WopiPostHandler(server, f, token,
                            Headers("RENAME_FILE", undefined, undefined,
                                    "Q3%20plan.docx"))
              relocked == WopiPostHandler(server, f, token, LockRequest(t))
              swapped == WopiPostHandler(server, f, token,
                            Headers("UNLOCK_AND_RELOCK", "L2", t, undefined))
          IN /\ ValidFor(f, token)
             /\ token.payload.userId = "user-2"
             /\ documentLocks[f].userId = "demo-user-001"
             /\ t = "L1" /\ now > documentLocks[f].timestamp
             /\ renamed.res.status = 200
             /\ renamed.localDocuments[f].name # localDocuments[f].name
             /\ renamed.documentLocks = documentLocks
             /\ relocked.documentLocks[f].userId = "demo-user-001"
             /\ relocked.documentLocks[f].timestamp = now
             /\ swapped.documentLocks[f].userId = "user-2"

(***************************************************************************)
(* Token service properties (under TokenSpec)                              *)
(***************************************************************************)
\* The client holds a WOPI token and validateWopiToken has answered for it.
WopiTokenPresented ==
    /\ held.fileId # undefined
    /\ verdict.by = "validateWopiToken"

\* The client holds an application token.
AppTokenHeld == held.fileId = undefined /\ held.userId # undefined

\* C8: for every fileId, user and permission, validateWopiToken of the token
\* generateWopiToken issued returns the payload with that fileId, userId and
\* permissions at every second strictly before issued-at (the second the
\* token was issued in, its iat) + TTL, and null from issued-at + TTL on.
C8_RoundTripUntilTtl ==
    WopiTokenPresented =>
        IF epochSeconds(verdict.at) < epochSeconds(held.at) + tokenTtlSeconds
        THEN /\ verdict.result # Null
             /\ verdict.result.fileId = held.fileId
             /\ verdict.result.userId = held.userId
             /\ verdict.result.permissions = held.permissions
        ELSE verdict.result = Null

\* What does hold: the payload is returned with the inputs exactly while
\* the clock's second is before the token's own exp, which is the second of
\* the later clock reading + TTL.
C8_RoundTripUntilExp ==
    WopiTokenPresented =>
        IF epochSeconds(verdict.at) < held.token.payload.exp
        THEN /\ verdict.result # Null
             /\ verdict.result.fileId = held.fileId
             /\ verdict.result.userId = held.userId
             /\ verdict.result.permissions = held.permissions
        ELSE verdict.result = Null

\* A token whose two clock readings fell in different seconds is accepted
\* at issued-at + TTL.
C8_AcceptedAtTtl ==
    /\ WopiTokenPresented
    /\ epochSeconds(verdict.at) = epochSeconds(held.at) + tokenTtlSeconds
    /\ verdict.result # Null

\* C9: WOPI access tokens and application tokens are never interchangeable:
\* validateWopiToken returns null for every token generateAppToken produced,
\* so the WOPI middleware answers 401 to it on every file, and
\* validateAppToken returns null for every token generateWopiToken produced.
C9_TokenKindsNotInterchangeable ==
    /\ AppTokenHeld =>
          /\ tsValidateWopiToken(held.token, now) = Null
          /\ verdict.by = "validateWopiToken" => verdict.result = Null
          /\ \A f \in FileIds :
                validateWopiToken(held.token, f, now).status = 401
    /\ held.fileId # undefined =>
          /\ tsValidateAppToken(held.token, now) = Null
          /\ verdict.by = "validateAppToken" => verdict.result = Null

\* An application token, not yet expired, was presented to validateWopiToken.
C9_AppTokenPresentedAsWopi ==
    /\ AppTokenHeld
    /\ verdict.by = "validateWopiToken"
    /\ epochSeconds(verdict.at) < held.token.payload.exp
    /\ jwtVerifies(held.token, jwtSecret, verdict.at)

(***************************************************************************)
(* Collabora discovery service                                             *)
(***************************************************************************)
DISCOVERY_CACHE_TTL == 60 * 60 * 1000

DiscoveryTickMs == 1800000   \* the discovery clock is read every half hour
MaxDiscoveryTicks == 3       \* and followed for MaxDiscoveryTicks readings
MaxFetching == 1             \* discovery fetches in flight per endpoint

MaxDiscoveryNow == DiscoveryTickMs * MaxDiscoveryTicks

\* config.collaboraDocumentUrl and config.collaboraSheetsUrl
CollaboraUrls == {"http://localhost:9980", "http://localhost:9981"}

DefaultUrlPath == "/browser/dist/cool.html"

\* The urlsrc attribute values a discovery document may carry.
CoolSrc == "https://office.example/browser/a1b2c3/cool.html?"
LegacySrc == "https://office.example/loleaflet/dist/loleaflet.html?"
RelativeSrc == "browser/dist/cool.html?"

\* new URL(fullUrl).pathname; "TypeError" when the constructor throws.
pathname(fullUrl) ==
    CASE fullUrl = CoolSrc -> "/browser/a1b2c3/cool.html"
      [] fullUrl = LegacySrc -> "/loleaflet/dist/loleaflet.html"
      [] OTHER -> "TypeError"

\* xml.match(/urlsrc="([^"]+cool\.html[^"]*)"/) on the urlsrc values in
\* document order: the values the pattern matches.
coolMatches(xml) ==
    SelectSeq(xml, LAMBDA u : u \in {CoolSrc, RelativeSrc})

\* xml.match(/urlsrc="([^"]+)"/): the non-empty values.
anyMatches(xml) == SelectSeq(xml, LAMBDA u : u # "")

\* What fetch() and response.text() may give: a rejected fetch, a response
\* that is not OK, a body whose reading is rejected, or the urlsrc values
\* of the body.
DiscoveryResponses ==
    {[fetch |-> "rejected", ok |-> FALSE, text |-> "rejected", xml |-> <<>>],
     [fetch |-> "resolved", ok |-> FALSE, text |-> "resolved", xml |-> <<>>],
     [fetch |-> "resolved", ok |-> TRUE, text |-> "rejected", xml |-> <<>>]}
    \cup {[fetch |-> "resolved", ok |-> TRUE, text |-> "resolved",
            xml |-> x] :
             x \in {<<>>, <<"">>, <<CoolSrc>>, <<LegacySrc>>,
                    <<LegacySrc, CoolSrc>>, <<RelativeSrc, LegacySrc>>}}

DiscoveryFallback(cache, t) ==
    [discoveryCache |-> cache, urlPath |-> DefaultUrlPath, timestamp |-> t,
     error |-> ""]

DiscoveryFound(cache, collaboraUrl, fullUrl, t) ==
    IF pathname(fullUrl) = "TypeError" THEN DiscoveryFallback(cache, t)
    ELSE [discoveryCache |->
             MapSet(cache, collaboraUrl,
                    [urlPath |-> pathname(fullUrl), timestamp |-> t]),
          urlPath |-> pathname(fullUrl), timestamp |-> t, error |-> ""]

fetchDiscoveryRethrows(cache, collaboraUrl, response, t) ==
    IF response.fetch = "rejected" \/ ~response.ok
          \/ response.text = "rejected"
    THEN [DiscoveryFallback(cache, t) EXCEPT
             !.urlPath = undefined, !.error = "Discovery fetch failed"]
    ELSE IF coolMatches(response.xml) # <<>>
    THEN DiscoveryFound(cache, collaboraUrl, coolMatches(response.xml)[1], t)
    ELSE IF anyMatches(response.xml) # <<>>
    THEN DiscoveryFound(cache, collaboraUrl, anyMatches(response.xml)[1], t)
    ELSE DiscoveryFallback(cache, t)

\* fetchDiscovery(collaboraUrl) once fetch() has settled with response, at
\* clock reading t: the cache it leaves and the { urlPath, timestamp } it
\* returns; error is what it throws ("" when it returns).
fetchDiscovery(cache, collaboraUrl, response, t) ==
    IF response.fetch = "rejected" \/ ~response.ok
          \/ response.text = "rejected"
    THEN DiscoveryFallback(cache, t)
    ELSE IF coolMatches(response.xml) # <<>>
    THEN DiscoveryFound(cache, collaboraUrl, coolMatches(response.xml)[1], t)
    ELSE IF anyMatches(response.xml) # <<>>
    THEN DiscoveryFound(cache, collaboraUrl, anyMatches(response.xml)[1], t)
    ELSE DiscoveryFallback(cache, t)

\* getCollaboraUrlPath(collaboraUrl) up to its await, at clock reading t:
\* the cached path, or a fetch to wait for.
getCollaboraUrlPath(cache, collaboraUrl, t) ==
    IF /\ MapHas(cache, collaboraUrl)
       /\ t - cache[collaboraUrl].timestamp < DISCOVERY_CACHE_TTL
    THEN [fetch |-> FALSE, urlPath |-> cache[collaboraUrl].urlPath]
    ELSE [fetch |-> TRUE, urlPath |-> undefined]

Fetches(url) == IF url \in DOMAIN fetching THEN fetching[url] ELSE 0

DiscoveryTick ==
    /\ now < MaxDiscoveryNow
    /\ now' = now + DiscoveryTickMs
    /\ UNCHANGED <<localDocuments, documentLocks, pending, held, verdict,
                   discovery>>

\* A call of getCollaboraUrlPath: the cached path is returned, or a fetch
\* is started.
GetCollaboraUrlPath(collaboraUrl) ==
    LET call == getCollaboraUrlPath(discoveryCache, collaboraUrl, now) IN
    /\ IF call.fetch
       THEN /\ Fetches(collaboraUrl) < MaxFetching
            /\ fetching' = MapSet(fetching, collaboraUrl,
                                  Fetches(collaboraUrl) + 1)
            /\ UNCHANGED resolved
       ELSE /\ resolved' = [url |-> collaboraUrl, urlPath |-> call.urlPath]
            /\ UNCHANGED fetching
    /\ UNCHANGED <<localDocuments, documentLocks, now, pending, held, verdict,
                   discoveryCache>>

\* The fetch settles and getCollaboraUrlPath returns discovery.urlPath.
FetchSettles(collaboraUrl, response) ==
    LET discovered ==
            fetchDiscovery(discoveryCache, collaboraUrl, response, now)
    IN
    /\ Fetches(collaboraUrl) > 0
    /\ fetching' = MapSet(fetching, collaboraUrl, Fetches(collaboraUrl) - 1)
    /\ discoveryCache' = discovered.discoveryCache
    /\ resolved' = [url |-> collaboraUrl, urlPath |-> discovered.urlPath]
    /\ UNCHANGED <<localDocuments, documentLocks, now, pending, held, verdict>>

DiscoveryNext ==
    \/ DiscoveryTick
    \/ \E collaboraUrl \in CollaboraUrls : GetCollaboraUrlPath(collaboraUrl)
    \/ \E collaboraUrl \in CollaboraUrls, response \in DiscoveryResponses :
          FetchSettles(collaboraUrl, response)

DiscoverySpec == Init /\ [][DiscoveryNext]_vars

(***************************************************************************)
(* Discovery properties (under DiscoverySpec)                              *)
(***************************************************************************)
\* The path of the document a response carries, or "none" when the fetch
\* was rejected, the response is not OK, the body cannot be read or holds
\* no urlsrc the URL constructor accepts.
FetchedPath(response) ==
    CASE ~(response.fetch = "resolved" /\ response.ok) -> "none"
      [] response.text # "resolved" -> "none"
      [] response.xml \in {<<CoolSrc>>, <<LegacySrc, CoolSrc>>} ->
            "/browser/a1b2c3/cool.html"
      [] response.xml = <<LegacySrc>> -> "/loleaflet/dist/loleaflet.html"
      [] OTHER -> "none"

OneHour == 60 * 60 * 1000

\* C25: getCollaboraUrlPath never throws.  With a cache entry for the
\* endpoint younger than one hour it returns the cached path and starts no
\* fetch; otherwise it fetches and returns the fetched path, or
\* '/browser/dist/cool.html' when the fetch is rejected, the response is not
\* OK or the document cannot be parsed.
C25_DiscoveryNeverFails ==
    \A collaboraUrl \in CollaboraUrls :
       LET call == getCollaboraUrlPath(discoveryCache, collaboraUrl, now)
           young == /\ collaboraUrl \in DOMAIN discoveryCache
                    /\ now - discoveryCache[collaboraUrl].timestamp < OneHour
       IN
       /\ young => /\ ~call.fetch
                   /\ call.urlPath = discoveryCache[collaboraUrl].urlPath
       /\ ~young =>
             /\ call.fetch
             /\ \A response \in DiscoveryResponses :
                   LET d == fetchDiscovery(discoveryCache, collaboraUrl,
                                           response, now)
                   IN /\ d.error = ""
                      /\ d.urlPath =
                            IF FetchedPath(response) = "none"
                            THEN "/browser/dist/cool.html"
                            ELSE FetchedPath(response)

\* An endpoint's cache entry has reached the age of one hour and another
\* endpoint's is younger: the first is fetched again, and a failed fetch
\* returns the default path and not the cached one; the second is answered
\* from the cache.
C25_StaleEntryFetchFails ==
    \E stale \in DOMAIN discoveryCache, young \in DOMAIN discoveryCache :
       /\ now - discoveryCache[stale].timestamp >= OneHour
       /\ discoveryCache[stale].urlPath # DefaultUrlPath
       /\ now - discoveryCache[young].timestamp < OneHour
       /\ Fetches(stale) > 0
       /\ resolved = [url |-> young, urlPath |-> discoveryCache[young].urlPath]
       /\ \E response \in DiscoveryResponses :
             /\ ~response.ok
             /\ fetchDiscovery(discoveryCache, stale, response, now).urlPath
                   = DefaultUrlPath

====
